---- MODULE Spec2Model ----
(***************************************************************************)
(* Model of the Reltio MCP server tool layer (src/src/tools/*.py) and the  *)
(* shared request pipeline (src/src/util/*.py).                            *)
(*                                                                         *)
(* One tool invocation is a small state machine.  The server code runs     *)
(* synchronously between two network interactions, so an action of the     *)
(* model is "a response arrives and the invocation runs until it sends     *)
(* the next request or returns":                                           *)
(*   Invoke         the invocation layer calls a tool function             *)
(*   TokenResponse  the auth server answers get_access_token               *)
(*   HttpResponse   the API answers one attempt of http_request            *)
(*   Return         the value is handed back to the invocation layer       *)
(*                                                                         *)
(* Python values are tagged records [t |-> type, v |-> value].  Text whose *)
(* content is inspected by the code (error messages, identifiers) is a     *)
(* sequence of one-character strings; literal message text that is never   *)
(* inspected is kept as a single chunk.                                    *)
(***************************************************************************)
EXTENDS Integers, Sequences, FiniteSets, TLC

(***************************************************************************)
(* Bounds of the model                                                     *)
(***************************************************************************)
\* network attempts of one http_request call the model follows before it
\* stops exploring (the code never gets there; a faulty retry flag would)
MaxAttempts == 3
\* longest entity_ids list given to merge_entities
MaxIds == 3
\* longest identifier of the enumerated identifiers
MaxIdChars == 5
\* invocations in progress at once when their steps interleave
MaxRunning == 2

(***************************************************************************)
(* Python values                                                           *)
(***************************************************************************)
PyNone == [t |-> "none", v |-> 0]
PyStr(s) == [t |-> "str", v |-> s]
PyInt(n) == [t |-> "int", v |-> n]
PyBool(b) == [t |-> "bool", v |-> b]
PyList(s) == [t |-> "list", v |-> s]
\* a dict: its keys in the order of their insertion, and the value of each
PyDict(keys, f) == [t |-> "dict", keys |-> keys, v |-> f]
\* the text produced by yaml.dump(x, sort_keys=False): a Python str
PyYaml(x) == [t |-> "str", v |-> <<"yaml.dump", x>>]
\* an exception travelling up the Python stack
Raise(exc, msg) == [t |-> "raise", v |-> [exc |-> exc, msg |-> msg]]
EmptyMap == [k \in {} |-> PyNone]

IsRaise(x) == x.t = "raise"
IsDict(x) == x.t = "dict"
IsList(x) == x.t = "list"
IsStr(x) == x.t = "str"
IsInt(x) == x.t = "int"
\* Python truthiness: None, empty containers, empty str, 0 and False are falsy
Truthy(x) ==
    CASE x.t = "none" -> FALSE
      [] x.t = "list" -> Len(x.v) > 0
      [] x.t = "dict" -> DOMAIN x.v # {}
      [] x.t = "str" -> Len(x.v) > 0
      [] x.t = "int" -> x.v # 0
      [] x.t = "bool" -> x.v
      [] OTHER -> TRUE
\* key in d, for a dict d
HasKey(d, k) == IsDict(d) /\ k \in DOMAIN d.v

(***************************************************************************)
(* Text                                                                    *)
(***************************************************************************)
\* sub in s (Python substring test) on sequences of characters
Contains(s, sub) ==
    \E i \in 1..(Len(s) - Len(sub) + 1) : SubSeq(s, i, i + Len(sub) - 1) = sub

DigitChar(d) == <<"0", "1", "2", "3", "4", "5", "6", "7", "8", "9">>[d + 1]

RECURSIVE NatToChars(_)
\* str(n) for a natural number
NatToChars(n) ==
    IF n < 10 THEN <<DigitChar(n)>>
    ELSE NatToChars(n \div 10) \o <<DigitChar(n % 10)>>

\* uri.split("/")[-1] on a non-empty character sequence
RECURSIVE LastSegment(_)
LastSegment(s) ==
    IF s = <<>> THEN <<>>
    ELSE IF s[Len(s)] = "/" THEN <<>>
    ELSE LastSegment(SubSeq(s, 1, Len(s) - 1)) \o <<s[Len(s)]>>

StartsWith(s, p) == Len(s) >= Len(p) /\ SubSeq(s, 1, Len(p)) = p

\* s.count(c)
CountChar(s, c) == Cardinality({i \in 1..Len(s) : s[i] = c})

\* re.sub('[' + cs + ']', '', s)
StripChars(s, cs) == SelectSeq(s, LAMBDA ch : ch \notin cs)

Letters ==
    {"a", "b", "c", "d", "e", "f", "g", "h", "i", "j", "k", "l", "m",
     "n", "o", "p", "q", "r", "s", "t", "u", "v", "w", "x", "y", "z",
     "A", "B", "C", "D", "E", "F", "G", "H", "I", "J", "K", "L", "M",
     "N", "O", "P", "Q", "R", "S", "T", "U", "V", "W", "X", "Y", "Z"}
Digits == {"0", "1", "2", "3", "4", "5", "6", "7", "8", "9"}

(***************************************************************************)
(* Python operations on the values of a JSON document.  An operation gives *)
(* its value or the exception it raises.  A dict whose keys are all str    *)
(* has those strings as its keys.                                          *)
(***************************************************************************)
\* whether a text is written as one string rather than as its characters
IsChunk(s) == SubSeq(ToString(s), 1, 1) = "\""

\* the characters of a text
Chars(s) == IF IsChunk(s) THEN [i \in 1..Len(s) |-> SubSeq(s, i, i)] ELSE s

RECURSIVE Join(_)
\* "".join(characters): the dict key a text names
Join(s) == IF Len(s) = 0 THEN "" ELSE s[1] \o Join(Tail(s))

\* type(x).__name__
TypeName(x) ==
    CASE x.t = "none" -> "NoneType"
      [] OTHER -> x.t

\* x[k], for a str k
Subscript(x, k) ==
    CASE IsDict(x) ->
            IF k \in DOMAIN x.v THEN x.v[k]
            ELSE Raise("KeyError", <<"'" \o k \o "'">>)
      [] IsList(x) ->
            Raise("TypeError",
                  <<"list indices must be integers or slices, not str">>)
      [] IsStr(x) ->
            Raise("TypeError", <<"string indices must be integers, not 'str'">>)
      [] OTHER ->
            Raise("TypeError",
                  <<"'" \o TypeName(x) \o "' object is not subscriptable">>)

\* x.name, for a method x does not have
NoAttribute(x, name) ==
    Raise("AttributeError",
          <<"'" \o TypeName(x) \o "' object has no attribute '" \o name \o "'">>)

\* for ... in x
Iterable(x) == x.t \in {"list", "dict", "str"}
NotIterable(x) ==
    Raise("TypeError", <<"'" \o TypeName(x) \o "' object is not iterable">>)

\* what a loop over x visits: the items of a list, the keys of a dict, the
\* characters of a str
Items(x) ==
    CASE IsList(x) -> x.v
      [] IsDict(x) -> [i \in 1..Len(x.keys) |-> PyStr(x.keys[i])]
      [] IsStr(x) -> [i \in 1..Len(x.v) |-> PyStr(SubSeq(x.v, i, i))]

\* k in x, for a str k: a key of a dict, an item of a list, a substring
PyIn(k, x) ==
    CASE IsDict(x) -> PyBool(k \in DOMAIN x.v)
      [] IsList(x) ->
            PyBool(\E i \in 1..Len(x.v) :
                      IsStr(x.v[i]) /\ Chars(x.v[i].v) = Chars(k))
      [] IsStr(x) -> PyBool(Contains(Chars(x.v), Chars(k)))
      [] OTHER ->
            Raise("TypeError",
                  <<"argument of type '" \o TypeName(x) \o "' is not iterable">>)

\* len(x)
PyLen(x) ==
    IF Iterable(x)
    THEN PyInt(IF IsDict(x) THEN Cardinality(DOMAIN x.v) ELSE Len(x.v))
    ELSE Raise("TypeError",
               <<"object of type '" \o TypeName(x) \o "' has no len()">>)

\* {x: ...}, for a list or a dict x
Unhashable(x) ==
    Raise("TypeError", <<"unhashable type: '" \o TypeName(x) \o "'">>)

\* the first exception among the outcomes of statements run in order, or
\* None when none of them raises
FirstRaise(outs) ==
    LET bad == {i \in 1..Len(outs) : IsRaise(outs[i])}
    IN  IF bad = {} THEN PyNone
        ELSE outs[CHOOSE i \in bad : \A j \in bad : i <= j]

\* a statement that uses the value x: the exception x raises goes on instead
Then(x, F(_)) == IF IsRaise(x) THEN x ELSE F(x)

\* [... for item in x]: the loop over the outcomes, then what is built of them
Comprehension(outs, Built(_)) ==
    IF IsRaise(FirstRaise(outs)) THEN FirstRaise(outs) ELSE Built(outs)

\* for item in x, for an x that may not be iterable
ForEach(x, Body(_)) ==
    IF ~Iterable(x) THEN NotIterable(x) ELSE Body(Items(x))

\* the pieces of a text, for a model text kept as one piece or as characters
Pieces(s) == IF IsChunk(s) THEN <<s>> ELSE s

\* the characters of code points 1 to 95 and 97 to 255, in order
CodesTo95 ==
    <<"", "", "", "", "", "", "", "", "\t", "\n", "", "\f",
      "\r", "", "", "", "", "", "", "", "", "", "", "",
      "", "", "", "", "", "", "", " ", "!", "\"", "#", "$",
      "%", "&", "'", "(", ")", "*", "+", ",", "-", ".", "/", "0",
      "1", "2", "3", "4", "5", "6", "7", "8", "9", ":", ";", "<",
      "=", ">", "?", "@", "A", "B", "C", "D", "E", "F", "G", "H",
      "I", "J", "K", "L", "M", "N", "O", "P", "Q", "R", "S", "T",
      "U", "V", "W", "X", "Y", "Z", "[", "\\", "]", "^", "_">>
CodesFrom97 ==
    <<"a", "b", "c", "d", "e", "f", "g", "h", "i", "j", "k", "l",
      "m", "n", "o", "p", "q", "r", "s", "t", "u", "v", "w", "x",
      "y", "z", "{", "|", "}", "~", "", "", "", "", "", "",
      "", "", "", "", "", "", "", "", "", "", "", "",
      "", "", "", "", "", "", "", "", "", "", "", "",
      "", "", "", " ", "¡", "¢", "£", "¤", "¥", "¦", "§", "¨",
      "©", "ª", "«", "¬", "­", "®", "¯", "°", "±", "²", "³", "´",
      "µ", "¶", "·", "¸", "¹", "º", "»", "¼", "½", "¾", "¿", "À",
      "Á", "Â", "Ã", "Ä", "Å", "Æ", "Ç", "È", "É", "Ê", "Ë", "Ì",
      "Í", "Î", "Ï", "Ð", "Ñ", "Ò", "Ó", "Ô", "Õ", "Ö", "×", "Ø",
      "Ù", "Ú", "Û", "Ü", "Ý", "Þ", "ß", "à", "á", "â", "ã", "ä",
      "å", "æ", "ç", "è", "é", "ê", "ë", "ì", "í", "î", "ï", "ð",
      "ñ", "ò", "ó", "ô", "õ", "ö", "÷", "ø", "ù", "ú", "û", "ü",
      "ý", "þ", "ÿ">>

\* ord(c), for the characters of the two tables
ord(c) ==
    IF \E i \in 1..Len(CodesTo95) : CodesTo95[i] = c
    THEN CHOOSE i \in 1..Len(CodesTo95) : CodesTo95[i] = c
    ELSE 96 + (CHOOSE i \in 1..Len(CodesFrom97) : CodesFrom97[i] = c)

RECURSIVE Flat(_)
\* the characters of a text kept as one piece, as pieces or as characters
Flat(s) ==
    IF IsChunk(s) THEN Chars(s)
    ELSE IF Len(s) = 0 THEN <<>>
    ELSE IF Len(s) = 1 THEN Chars(s[1])
    ELSE Flat(SubSeq(s, 1, Len(s) \div 2))
             \o Flat(SubSeq(s, (Len(s) \div 2) + 1, Len(s)))

\* str.isprintable() of a character up to U+00FF
Printable(c) ==
    \/ ord(c) \in 32..126
    \/ ord(c) \in 161..255 /\ ord(c) # 173

LowerHexDigits ==
    <<"0", "1", "2", "3", "4", "5", "6", "7", "8", "9",
      "a", "b", "c", "d", "e", "f">>

\* what repr writes for one character of a str quoted with q
ReprChar(c, q) ==
    CASE c = "\\" -> "\\\\"
      [] c = q -> "\\" \o q
      [] c = "\t" -> "\\t"
      [] c = "\n" -> "\\n"
      [] c = "\r" -> "\\r"
      [] OTHER ->
            IF Printable(c) THEN c
            ELSE "\\x" \o LowerHexDigits[(ord(c) \div 16) + 1]
                       \o LowerHexDigits[(ord(c) % 16) + 1]

\* repr of a str: in double quotes when it holds a single quote and no double
\* quote, in single quotes otherwise
ReprStr(s) ==
    LET chars == Flat(s)
        Holds(c) == \E i \in 1..Len(chars) : chars[i] = c
        q == IF Holds("'") /\ ~Holds("\"") THEN "\"" ELSE "'"
    IN  <<q>> \o [i \in 1..Len(chars) |-> ReprChar(chars[i], q)] \o <<q>>

\* repr(x), as pieces of text: the items of a dict in the order of its keys
RECURSIVE Repr(_)
Repr(x) ==
    LET RECURSIVE Joined(_)
        Joined(parts) ==
            IF Len(parts) = 0 THEN <<>>
            ELSE IF Len(parts) = 1 THEN parts[1]
            ELSE parts[1] \o <<", ">> \o Joined(Tail(parts))
        Item(k) == ReprStr(k) \o <<": ">> \o Repr(x.v[k])
    IN  CASE x.t = "none" -> <<"None">>
          [] x.t = "bool" -> IF x.v THEN <<"True">> ELSE <<"False">>
          [] x.t = "int" -> <<ToString(x.v)>>
          [] x.t = "str" -> ReprStr(x.v)
          [] x.t = "list" ->
                <<"[">> \o Joined([i \in 1..Len(x.v) |-> Repr(x.v[i])])
                    \o <<"]">>
          [] x.t = "dict" ->
                <<"{">> \o Joined([i \in 1..Len(x.keys) |-> Item(x.keys[i])])
                    \o <<"}">>
\* f"{x}": str(x), as pieces of text
Str(x) == IF IsStr(x) THEN Pieces(x.v) ELSE Repr(x)

\* x.get(k, default), for an x of any type
DotGet(x, k, default) ==
    IF ~IsDict(x) THEN NoAttribute(x, "get")
    ELSE IF k \in DOMAIN x.v THEN x.v[k] ELSE default

\* x == s, for a str s
SameText(x, s) == IsStr(x) /\ Chars(x.v) = Chars(s)

\* the least element of a non-empty set of numbers
Least(S) == CHOOSE i \in S : \A j \in S : i <= j

RECURSIVE Ascending(_)
\* the numbers of a finite set, from the least
Ascending(S) ==
    IF S = {} THEN <<>> ELSE <<Least(S)>> \o Ascending(S \ {Least(S)})

\* the indices of the first occurrence of every item of a sequence
Firsts(ks) == {i \in 1..Len(ks) : \A j \in 1..(i - 1) : ks[j] # ks[i]}

\* the index of the last occurrence of k in a sequence
LastIndex(ks, k) ==
    CHOOSE i \in 1..Len(ks) :
        ks[i] = k /\ \A j \in (i + 1)..Len(ks) : ks[j] # k

\* the dict made by d[ks[i]] = vs[i] for i = 1, 2, ...: a key stays where
\* it was first inserted and has the value inserted last
Inserted(ks, vs) ==
    PyDict([n \in 1..Cardinality(Firsts(ks)) |-> ks[Ascending(Firsts(ks))[n]]],
           [k \in {ks[i] : i \in 1..Len(ks)} |-> vs[LastIndex(ks, k)]])

\* {k: v for k, v in d.items() if k in keep}
Restricted(d, keep) ==
    PyDict(SelectSeq(d.keys, LAMBDA k : k \in keep),
           [k \in DOMAIN d.v \cap keep |-> d.v[k]])

(***************************************************************************)
(* src/src/constants.py                                                    *)
(***************************************************************************)
IdMinLen == 5
IdMaxLen == 30
TenantMinLen == 3
TenantMaxLen == 30
MAX_RESULTS_LIMIT == 100
MaxOffsetPlusResults == 10000
ToolResultCap == 10

\* ENTITY_ID_PATTERN = RELATION_ID_PATTERN = ^[a-zA-Z0-9-_/]{5,30}$
ENTITY_ID_PATTERN(s) ==
    /\ Len(s) >= IdMinLen
    /\ Len(s) <= IdMaxLen
    /\ \A i \in 1..Len(s) : s[i] \in Letters \cup Digits \cup {"-", "_", "/"}

RELATION_ID_PATTERN(s) == ENTITY_ID_PATTERN(s)

\* TENANT_ID_PATTERN = ^[a-zA-Z0-9-_]{3,30}$
TENANT_ID_PATTERN(s) ==
    /\ Len(s) >= TenantMinLen
    /\ Len(s) <= TenantMaxLen
    /\ \A i \in 1..Len(s) : s[i] \in Letters \cup Digits \cup {"-", "_"}

REQUIRE_TLS == TRUE
ALLOWED_ORIGINS == {"https://app.reltio.com", "https://api.reltio.com"}

ErrorCodeKeys ==
    {"VALIDATION_ERROR", "AUTHENTICATION_ERROR", "AUTHORIZATION_ERROR",
     "RESOURCE_NOT_FOUND", "TIMEOUT_ERROR", "CONFLICT_ERROR",
     "RATE_LIMIT_ERROR", "SERVER_ERROR", "SERVICE_UNAVAILABLE"}

\* ERROR_CODES.get(code_key, 500)
ERROR_CODES(code_key) ==
    CASE code_key = "VALIDATION_ERROR" -> 400
      [] code_key = "AUTHENTICATION_ERROR" -> 401
      [] code_key = "AUTHORIZATION_ERROR" -> 403
      [] code_key = "RESOURCE_NOT_FOUND" -> 404
      [] code_key = "TIMEOUT_ERROR" -> 408
      [] code_key = "CONFLICT_ERROR" -> 409
      [] code_key = "RATE_LIMIT_ERROR" -> 429
      [] code_key = "SERVER_ERROR" -> 500
      [] code_key = "SERVICE_UNAVAILABLE" -> 503
      [] OTHER -> 500

SafeDetailKeys == {"field", "resource", "error_type"}

(***************************************************************************)
(* Message text that the code inspects, character by character             *)
(***************************************************************************)
ApiFailedPrefix ==
    <<"A", "P", "I", " ", "r", "e", "q", "u", "e", "s", "t", " ", "f", "a",
      "i", "l", "e", "d", ":", " ">>
AuthFailedPrefix ==
    <<"A", "u", "t", "h", "e", "n", "t", "i", "c", "a", "t", "i", "o", "n",
      " ", "f", "a", "i", "l", "e", "d", ":", " ">>
\* str() of the JSONDecodeError raised by response.json() on an empty body
JsonDecodeMsg ==
    <<"E", "x", "p", "e", "c", "t", "i", "n", "g", " ", "v", "a", "l", "u",
      "e", ":", " ", "l", "i", "n", "e", " ", "1", " ", "c", "o", "l", "u",
      "m", "n", " ", "1", " ", "(", "c", "h", "a", "r", " ", "0", ")">>
\* str() of the KeyError raised by result['access_token']
KeyErrorMsg ==
    <<"'", "a", "c", "c", "e", "s", "s", "_", "t", "o", "k", "e", "n", "'">>
InvalidTokenText ==
    <<"i", "n", "v", "a", "l", "i", "d", "_", "t", "o", "k", "e", "n">>
ConnRefusedText ==
    <<"C", "o", "n", "n", "e", "c", "t", "i", "o", "n", " ", "r", "e", "f",
      "u", "s", "e", "d">>
NotFoundText ==
    <<"e", "r", "r", "o", "r", " ", "4", "0", "4">>
BadRequestText ==
    <<"e", "r", "r", "o", "r", " ", "4", "0", "0">>
EntitiesPrefix ==
    <<"e", "n", "t", "i", "t", "i", "e", "s", "/">>
Sub404 == <<"4", "0", "4">>
Sub400 == <<"4", "0", "0">>

(***************************************************************************)
(* The upstream: what the auth server and the API may answer               *)
(***************************************************************************)
\* response bodies (response.text) of error answers
Texts == {<<>>, InvalidTokenText, NotFoundText, BadRequestText}
\* statuses for which response.raise_for_status() raises HTTPError
ErrStatuses == {400, 401, 404, 500}

\* JSON documents of 2xx answers
WellFormedItem ==
    PyDict(<<"uri", "label", "type", "attributes", "object", "matchRules",
             "createdTime", "matchScore">>,
           [uri |-> PyStr("entities/0001"), label |-> PyStr("label"),
            type |-> PyStr("configuration/entityTypes/Individual"),
            attributes |-> PyDict(<<>>, EmptyMap),
            object |-> PyDict(<<"uri">>, [uri |-> PyStr("entities/0002")]),
            matchRules |-> PyList(<<>>), createdTime |-> PyInt(1),
            matchScore |-> PyInt(90)])
\* one type of a business configuration
IndividualUri == "configuration/entityTypes/Individual"
WellFormedType ==
    PyDict(<<"uri", "label", "attributes", "startObject", "memberTypes",
             "relationshipTypeURIs">>,
           [uri |-> PyStr(IndividualUri), label |-> PyStr("Individual"),
            attributes |->
                PyList(<<PyDict(<<"name", "type", "required">>,
                                [name |-> PyStr("FirstName"),
                                 type |-> PyStr("String"),
                                 required |-> PyBool(TRUE)])>>),
            startObject |-> PyDict(<<"objectTypeURI">>,
                                   [objectTypeURI |-> PyStr(IndividualUri)]),
            memberTypes |-> PyList(<<PyDict(<<"name">>,
                                            [name |-> PyStr("member")])>>),
            relationshipTypeURIs |-> PyList(<<PyStr("relation")>>)])
WellFormedDict ==
    PyDict(<<"uri", "label", "attributes", "crosswalks", "total", "type",
             "sources", "entityTypes", "relationTypes", "interactionTypes",
             "graphTypes", "groupingTypes">>,
           [uri |-> PyStr("entities/0001"), label |-> PyStr("label"),
            attributes |-> PyDict(<<>>, EmptyMap), crosswalks |-> PyList(<<>>),
            total |-> PyInt(3), type |-> PyList(<<>>),
            sources |-> PyList(<<PyDict(<<>>, EmptyMap)>>),
            entityTypes |-> PyList(<<WellFormedType>>),
            relationTypes |-> PyList(<<WellFormedType>>),
            interactionTypes |-> PyList(<<WellFormedType>>),
            graphTypes |-> PyList(<<PyStr("graph"), WellFormedType>>),
            groupingTypes |-> PyInt(1)])
BareDict == PyDict(<<"other">>, [other |-> PyInt(1)])
Bodies ==
    {PyNone, PyList(<<>>), PyDict(<<>>, EmptyMap), WellFormedDict, BareDict,
     PyList(<<WellFormedItem>>), PyList(<<PyInt(1)>>)}

\* one answer to requests.request(...):
\*   json    2xx with a JSON document
\*   nojson  2xx with an empty body: response.json() raises
\*   http    4xx/5xx: raise_for_status() raises HTTPError
\*   exc     no answer: requests raises ConnectionError / Timeout
Responses ==
    [kind : {"json"}, body : Bodies]
      \cup {[kind |-> "nojson"]}
      \cup [kind : {"http"}, status : ErrStatuses, text : Texts]
      \cup [kind : {"exc"}, text : {ConnRefusedText}]

\* one answer to the POST of get_access_token:
\*   token   2xx with an access_token
\*   fail    RequestException (error status or transport), body text given
\*   nokey   2xx JSON without access_token: KeyError
TokenResponses ==
    {[kind |-> "token"], [kind |-> "nokey"]}
      \cup [kind : {"fail"}, text : {<<>>, NotFoundText}]

(***************************************************************************)
(* src/src/util/auth.py                                                    *)
(***************************************************************************)
\* get_access_token: the token of the n-th fetch of the invocation, or the
\* exception raised
get_access_token(resp, n) ==
    CASE resp.kind = "token" -> PyInt(n)
      [] resp.kind = "fail" -> Raise("ValueError", AuthFailedPrefix \o resp.text)
      [] resp.kind = "nokey" -> Raise("KeyError", KeyErrorMsg)

\* get_reltio_headers: the header dict built around the token
get_reltio_headers(resp, n) ==
    LET token == get_access_token(resp, n)
    IN  IF IsRaise(token) THEN token
        ELSE PyDict(<<"Authorization", "ContentType", "Accept", "Source">>,
                    [Authorization |-> token.v,
                     ContentType |-> "application/json",
                     Accept |-> "application/json",
                     Source |-> "Reltio-Open-MCP-Server"])

(***************************************************************************)
(* src/src/util/api.py                                                     *)
(***************************************************************************)
\* get_reltio_url / get_reltio_export_job_url: the URL, kept in its parts
get_reltio_url(path, partial_path, tenant) ==
    [scheme |-> "https", root |-> "reltio", family |-> partial_path,
     tenant |-> tenant, path |-> path]

get_reltio_export_job_url(path, tenant) ==
    [scheme |-> "https", root |-> "jobs", family |-> "export",
     tenant |-> tenant, path |-> path]

\* validate_connection_security: True, or the SecurityError raised
\* (str of a SecurityError is "403: Security requirements not met")
validate_connection_security(url, headers) ==
    IF REQUIRE_TLS /\ url.scheme # "https"
    THEN Raise("SecurityError", <<"403: Security requirements not met">>)
    ELSE IF /\ Truthy(headers)
            /\ "Origin" \in DOMAIN headers.v
            /\ headers.v["Origin"] \notin ALLOWED_ORIGINS
    THEN Raise("SecurityError", <<"403: Security requirements not met">>)
    ELSE PyBool(TRUE)

\* the ValueError message of a failed attempt
ApiFailedMsg(status, text) ==
    ApiFailedPrefix \o NatToChars(status) \o <<" ", "-", " ">> \o text

\* mutation: the recursive call keeps retry_on_401 = True
RetryFlagKept == TRUE

\* the flag the recursive call of http_request is given
RetryFlagOfRetry == FALSE

\* mutation: http_request without its 401 branch
http_request_no_retry(resp, headers, retry_on_401) ==
    CASE resp.kind = "json" -> [out |-> "return", val |-> resp.body]
      [] resp.kind = "nojson" ->
            [out |-> "raise", val |-> Raise("JSONDecodeError", JsonDecodeMsg)]
      [] resp.kind = "exc" ->
            [out |-> "raise", val |-> Raise("ConnectionError", resp.text)]
      [] resp.kind = "http" ->
            [out |-> "raise",
             val |-> Raise("ValueError", ApiFailedMsg(resp.status, resp.text))]

\* http_request, one attempt: what the function does with the answer
\*   [out |-> "return", val]   the parsed JSON is returned
\*   [out |-> "raise", val]    an exception leaves http_request
\*   [out |-> "refetch"]       get_reltio_headers() is called, then the
\*                             request is sent again with RetryFlagOfRetry
http_request(resp, headers, retry_on_401) ==
    CASE resp.kind = "json" -> [out |-> "return", val |-> resp.body]
      [] resp.kind = "nojson" ->
            [out |-> "raise", val |-> Raise("JSONDecodeError", JsonDecodeMsg)]
      [] resp.kind = "exc" ->
            [out |-> "raise", val |-> Raise("ConnectionError", resp.text)]
      [] resp.kind = "http" ->
            IF /\ resp.status = 401
               /\ retry_on_401
               /\ Contains(resp.text, InvalidTokenText)
               /\ Truthy(headers)
               /\ "Authorization" \in DOMAIN headers.v
            THEN [out |-> "refetch", val |-> PyNone]
            ELSE [out |-> "raise",
                  val |-> Raise("ValueError",
                                ApiFailedMsg(resp.status, resp.text))]

\* str(value) as create_error_response applies it to a detail value
PyStrOf(x) ==
    IF IsStr(x) THEN x
    ELSE IF IsInt(x) /\ x.v >= 0 THEN PyStr(NatToChars(x.v))
    ELSE PyStr(Str(x))

\* create_error_response(code_key, message, details)
create_error_response(code_key, message, details) ==
    LET keys == IF Truthy(details)
                THEN DOMAIN details.v \cap SafeDetailKeys
                ELSE {}
        safe_details ==
            PyDict(IF Truthy(details)
                   THEN SelectSeq(details.keys, LAMBDA k : k \in SafeDetailKeys)
                   ELSE <<>>,
                   [k \in keys |-> PyStrOf(details.v[k])])
    IN  PyDict(<<"error">>,
               [error |->
                   PyDict(<<"code", "code_key", "message", "details">>,
                          [code |-> PyInt(ERROR_CODES(code_key)),
                           code_key |-> PyStr(code_key),
                           message |-> PyStr(message),
                           details |-> safe_details])])

(***************************************************************************)
(* src/src/util/models.py: the request schemas.  A schema applied to the   *)
(* raw arguments gives [ok |-> TRUE, request |-> ...] or, when pydantic    *)
(* raises its ValidationError (a ValueError), [ok |-> FALSE, err |-> ...]. *)
(* Field constraints (pattern, ge, le) are applied to the raw value first; *)
(* the field validators run on values that passed them; the model          *)
(* validators run when every field passed.                                 *)
(***************************************************************************)
Invalid(reason) == [ok |-> FALSE, err |-> reason]
Valid(req) == [ok |-> TRUE, request |-> req]

\* extract_entity_id / extract_relation_id (src/src/util/api.py)
extract_entity_id(uri) ==
    IF uri = <<>> THEN <<"N", "/", "A">> ELSE LastSegment(uri)

extract_relation_id(uri) ==
    IF uri = <<>> THEN <<"N", "/", "A">> ELSE LastSegment(uri)

\* the characters StringConstraints(strip_whitespace=True) removes from both
\* ends, of those a string of the model can hold: U+0009 to U+000D, the
\* space, U+0085 and U+00A0
Whitespace == {" ", "\t", "\n", "", "\f", "\r", "", " "}

\* the characters str.strip() removes: those, and U+001C to U+001F
StrWhitespace == Whitespace \cup {"", "", "", ""}

RECURSIVE LStrip(_, _)
LStrip(s, ws) ==
    IF s # <<>> /\ s[1] \in ws THEN LStrip(Tail(s), ws) ELSE s

RECURSIVE RStrip(_, _)
RStrip(s, ws) ==
    IF s # <<>> /\ s[Len(s)] \in ws
    THEN RStrip(SubSeq(s, 1, Len(s) - 1), ws)
    ELSE s

\* StringConstraints(strip_whitespace=True)
StripWhitespace(s) == RStrip(LStrip(s, Whitespace), Whitespace)

\* str.strip()
strip(s) == RStrip(LStrip(s, StrWhitespace), StrWhitespace)

UpperCase == <<"A", "B", "C", "D", "E", "F", "G", "H", "I", "J", "K", "L", "M",
               "N", "O", "P", "Q", "R", "S", "T", "U", "V", "W", "X", "Y", "Z">>
LowerCase == <<"a", "b", "c", "d", "e", "f", "g", "h", "i", "j", "k", "l", "m",
               "n", "o", "p", "q", "r", "s", "t", "u", "v", "w", "x", "y", "z">>

\* str.lower()
Lower(s) ==
    [i \in 1..Len(s) |->
        IF \E j \in 1..26 : UpperCase[j] = s[i]
        THEN LowerCase[CHOOSE j \in 1..26 : UpperCase[j] = s[i]]
        ELSE s[i]]

DangerousChars == {"<", ">", "'", "\"", ";"}
MAX_FILTER_LENGTH == 1000
MAX_ENTITY_TYPE_LENGTH == 50

EntityIdRequest(a) ==
    IF ~ENTITY_ID_PATTERN(a.entity_id) THEN Invalid("entity_id: pattern")
    ELSE IF ~TENANT_ID_PATTERN(a.tenant_id) THEN Invalid("tenant_id: pattern")
    ELSE Valid([entity_id |-> extract_entity_id(a.entity_id),
                tenant_id |-> a.tenant_id])

\* updates: List[Dict[str, Any]]
UpdateEntityAttributesRequest(a) ==
    IF ~ENTITY_ID_PATTERN(a.entity_id) THEN Invalid("entity_id: pattern")
    ELSE IF ~IsList(a.updates)
    THEN Invalid("updates: Input should be a valid list")
    ELSE IF \E i \in 1..Len(a.updates.v) : ~IsDict(a.updates.v[i])
    THEN Invalid("updates."
                 \o ToString((CHOOSE i \in 1..Len(a.updates.v) :
                                  /\ ~IsDict(a.updates.v[i])
                                  /\ \A j \in 1..(i - 1) :
                                         IsDict(a.updates.v[j])) - 1)
                 \o ": Input should be a valid dictionary")
    ELSE IF ~TENANT_ID_PATTERN(a.tenant_id) THEN Invalid("tenant_id: pattern")
    ELSE Valid([entity_id |-> extract_entity_id(a.entity_id),
                updates |-> a.updates,
                tenant_id |-> a.tenant_id])

RelationIdRequest(a) ==
    IF ~RELATION_ID_PATTERN(a.relation_id) THEN Invalid("relation_id: pattern")
    ELSE IF ~TENANT_ID_PATTERN(a.tenant_id) THEN Invalid("tenant_id: pattern")
    ELSE Valid([relation_id |-> extract_relation_id(a.relation_id),
                tenant_id |-> a.tenant_id])

\* MergeEntitiesRequest.validate_entity_ids: every id ends up with the prefix
FormatMergeId(id) ==
    IF StartsWith(id, EntitiesPrefix) THEN id
    ELSE EntitiesPrefix \o extract_entity_id(id)

\* mutation: the schema without its length check
MergeEntitiesRequestAnyLength(a) ==
    IF ~TENANT_ID_PATTERN(a.tenant_id) THEN Invalid("tenant_id: pattern")
    ELSE Valid([entity_ids |->
                    [i \in 1..Len(a.entity_ids) |-> FormatMergeId(a.entity_ids[i])],
                tenant_id |-> a.tenant_id])

MergeEntitiesRequest(a) ==
    IF Len(a.entity_ids) # 2 THEN Invalid("entity_ids: exactly two")
    ELSE IF ~TENANT_ID_PATTERN(a.tenant_id) THEN Invalid("tenant_id: pattern")
    ELSE Valid([entity_ids |->
                    [i \in 1..Len(a.entity_ids) |-> FormatMergeId(a.entity_ids[i])],
                tenant_id |-> a.tenant_id])

RejectMatchRequest(a) ==
    IF ~ENTITY_ID_PATTERN(a.source_id) THEN Invalid("source_id: pattern")
    ELSE IF ~ENTITY_ID_PATTERN(a.target_id) THEN Invalid("target_id: pattern")
    ELSE IF ~TENANT_ID_PATTERN(a.tenant_id) THEN Invalid("tenant_id: pattern")
    ELSE Valid([source_id |-> extract_entity_id(a.source_id),
                target_id |-> extract_entity_id(a.target_id),
                tenant_id |-> a.tenant_id])

UnmergeEntityRequest(a) ==
    IF ~ENTITY_ID_PATTERN(a.origin_entity_id)
    THEN Invalid("origin_entity_id: pattern")
    ELSE IF ~ENTITY_ID_PATTERN(a.contributor_entity_id)
    THEN Invalid("contributor_entity_id: pattern")
    ELSE IF ~TENANT_ID_PATTERN(a.tenant_id) THEN Invalid("tenant_id: pattern")
    ELSE Valid([origin_entity_id |-> extract_entity_id(a.origin_entity_id),
                contributor_entity_id |->
                    extract_entity_id(a.contributor_entity_id),
                tenant_id |-> a.tenant_id])

\* EntitySearchRequest.validate_filter, on the stripped filter
validate_filter(v) ==
    IF v = <<>> THEN Valid(v)
    ELSE IF CountChar(v, "(") # CountChar(v, ")")
    THEN Invalid("Unbalanced parentheses in filter expression")
    ELSE Valid(StripChars(v, DangerousChars))

\* EntitySearchRequest.validate_order
validate_order(v) ==
    IF Lower(v) \notin {<<"a", "s", "c">>, <<"d", "e", "s", "c">>}
    THEN Invalid("Order must be 'asc' or 'desc'")
    ELSE Valid(Lower(v))

\* search_entities gives no query: the field keeps its default
EntitySearchRequest(a) ==
    LET flt == StripWhitespace(a.filter)
        entity_type == StripWhitespace(a.entity_type)
    IN  IF Len(flt) > MAX_FILTER_LENGTH THEN Invalid("filter: max_length")
        ELSE IF ~validate_filter(flt).ok THEN Invalid(validate_filter(flt).err)
        ELSE IF Len(entity_type) > MAX_ENTITY_TYPE_LENGTH
        THEN Invalid("entity_type: max_length")
        ELSE IF ~TENANT_ID_PATTERN(a.tenant_id) THEN Invalid("tenant_id: pattern")
        ELSE IF a.max_results < 1 \/ a.max_results > MAX_RESULTS_LIMIT
        THEN Invalid("max_results: range")
        ELSE IF ~validate_order(a.order).ok THEN Invalid(validate_order(a.order).err)
        ELSE IF a.offset < 0 THEN Invalid("offset: ge 0")
        ELSE IF a.offset + a.max_results > MaxOffsetPlusResults
        THEN Invalid("The sum of offset and max_results must not exceed 10000")
        ELSE Valid([query |-> <<>>,
                    filter |-> validate_filter(flt).request,
                    entity_type |-> entity_type,
                    tenant_id |-> a.tenant_id,
                    max_results |-> a.max_results,
                    sort |-> a.sort,
                    order |-> validate_order(a.order).request,
                    select |-> a.select,
                    options |-> a.options,
                    activeness |-> a.activeness,
                    offset |-> a.offset])

\* the defaults of entity_type and confidence_level
DefaultEntityType ==
    <<"I", "n", "d", "i", "v", "i", "d", "u", "a", "l">>
DefaultConfidence ==
    <<"L", "o", "w", " ", "c", "o", "n", "f", "i", "d", "e", "n", "c",
      "e">>

\* MatchScoreRequest.validate_entity_type, and
\* ConfidenceLevelRequest.validate_string_fields for entity_type
validate_entity_type(v) == IF v = <<>> THEN DefaultEntityType ELSE v

\* ConfidenceLevelRequest.validate_string_fields for confidence_level
validate_confidence_level(v) == IF v = <<>> THEN DefaultConfidence ELSE v

MatchScoreRequest(a) ==
    IF a.start_match_score < 0 \/ a.start_match_score > 100
    THEN Invalid("start_match_score: range")
    ELSE IF a.end_match_score < 0 \/ a.end_match_score > 100
    THEN Invalid("end_match_score: range")
    ELSE IF Len(StripWhitespace(a.entity_type)) > MAX_ENTITY_TYPE_LENGTH
    THEN Invalid("entity_type: max_length")
    ELSE IF ~TENANT_ID_PATTERN(a.tenant_id) THEN Invalid("tenant_id: pattern")
    ELSE IF a.max_results < 1 \/ a.max_results > ToolResultCap
    THEN Invalid("max_results: range")
    ELSE IF a.offset < 0 THEN Invalid("offset: ge 0")
    ELSE IF a.offset + a.max_results > MaxOffsetPlusResults
    THEN Invalid("The sum of offset and max_results must not exceed 10000")
    ELSE IF a.start_match_score > a.end_match_score
    THEN Invalid("start_match_score must be less than or equal to end_match_score")
    ELSE Valid([start_match_score |-> a.start_match_score,
                end_match_score |-> a.end_match_score,
                entity_type |->
                    validate_entity_type(StripWhitespace(a.entity_type)),
                tenant_id |-> a.tenant_id,
                max_results |-> a.max_results,
                offset |-> a.offset])

ConfidenceLevelRequest(a) ==
    IF Len(StripWhitespace(a.entity_type)) > MAX_ENTITY_TYPE_LENGTH
    THEN Invalid("entity_type: max_length")
    ELSE IF ~TENANT_ID_PATTERN(a.tenant_id) THEN Invalid("tenant_id: pattern")
    ELSE IF a.max_results < 1 \/ a.max_results > ToolResultCap
    THEN Invalid("max_results: range")
    ELSE IF a.offset < 0 THEN Invalid("offset: ge 0")
    ELSE IF a.offset + a.max_results > MaxOffsetPlusResults
    THEN Invalid("The sum of offset and max_results must not exceed 10000")
    ELSE Valid([confidence_level |->
                    validate_confidence_level(
                        StripWhitespace(a.confidence_level)),
                entity_type |->
                    validate_entity_type(StripWhitespace(a.entity_type)),
                tenant_id |-> a.tenant_id,
                max_results |-> a.max_results,
                offset |-> a.offset])

GetTotalMatchesRequest(a) ==
    IF a.min_matches < 0 THEN Invalid("min_matches: ge 0")
    ELSE IF ~TENANT_ID_PATTERN(a.tenant_id) THEN Invalid("tenant_id: pattern")
    ELSE Valid([min_matches |-> a.min_matches, tenant_id |-> a.tenant_id])

GetMatchFacetsRequest(a) ==
    IF a.min_matches < 0 THEN Invalid("min_matches: ge 0")
    ELSE IF ~TENANT_ID_PATTERN(a.tenant_id) THEN Invalid("tenant_id: pattern")
    ELSE Valid([min_matches |-> a.min_matches, tenant_id |-> a.tenant_id])

\* the number a digit character writes
DigitOf(c) == CHOOSE n \in 0..9 : DigitChar(n) = c

RECURSIVE DigitsValue(_)
\* the number a sequence of digits writes
DigitsValue(s) ==
    IF s = <<>> THEN 0
    ELSE 10 * DigitsValue(SubSeq(s, 1, Len(s) - 1)) + DigitOf(s[Len(s)])

\* what pydantic makes of a str given for an int field (lax mode): the text
\* is trimmed, loses one sign, a fraction of zeros, its leading zeros and the
\* single underscores between its digits, and what is left is read as
\* -?(0|[1-9][0-9]*).  [ok |-> FALSE] stands for the error int_parsing.
\* The steps follow one another, each handing on what it has found.

\* the digits left, with the sign found before them
IntOfDigits(ok, minus, inner_minus, digits) ==
    IF /\ ok
       /\ ~(minus /\ inner_minus)
       /\ digits # <<>>
       /\ \A i \in 1..Len(digits) : digits[i] \in Digits
       /\ Len(digits) > 1 => digits[1] # "0"
    THEN [ok |-> TRUE,
          n |-> IF minus \/ inner_minus THEN 0 - DigitsValue(digits)
                ELSE DigitsValue(digits)]
    ELSE [ok |-> FALSE, n |-> 0]

\* a minus sign may follow the leading zeros
IntOfPlain(ok, minus, plain) ==
    IntOfDigits(ok, minus, plain # <<>> /\ plain[1] = "-",
                IF plain # <<>> /\ plain[1] = "-" THEN Tail(plain) ELSE plain)

\* an underscore stands between two digits
UnderscoresOk(stripped) ==
    /\ stripped # <<>>
    /\ stripped[1] # "_"
    /\ stripped[Len(stripped)] # "_"
    /\ \A i \in 1..(Len(stripped) - 1) :
          ~(stripped[i] = "_" /\ stripped[i + 1] = "_")

IntOfStripped(ok, minus, stripped) ==
    IntOfPlain(ok /\ UnderscoresOk(stripped), minus,
               StripChars(stripped, {"_"}))

\* the text starts with a digit, and a first "0" takes the zeros and
\* underscores after it along, up to a digit or a minus sign
LeadingOk(whole, significant) ==
    /\ whole # <<>>
    /\ whole[1] \in Digits
    /\ (whole[1] = "0" /\ significant # {})
          => whole[Least(significant)] \in Digits \cup {"-"}

StripLeading(whole, significant) ==
    IF whole = <<>> \/ whole[1] # "0" THEN whole
    ELSE IF significant = {} THEN <<whole[Len(whole)]>>
    ELSE SubSeq(whole, Least(significant), Len(whole))

IntOfSignificant(ok, minus, whole, significant) ==
    IntOfStripped(ok /\ LeadingOk(whole, significant), minus,
                  StripLeading(whole, significant))

IntOfWhole(ok, minus, whole) ==
    IntOfSignificant(ok, minus, whole,
                     {i \in 1..Len(whole) : whole[i] \notin {"0", "_"}})

\* a fraction is one zero or more
FractionOk(unsigned, dots) ==
    dots = {} \/ /\ Least(dots) < Len(unsigned)
                 /\ \A i \in (Least(dots) + 1)..Len(unsigned) :
                       unsigned[i] = "0"

IntOfFraction(minus, unsigned, dots) ==
    IntOfWhole(FractionOk(unsigned, dots), minus,
               IF dots = {} THEN unsigned
               ELSE SubSeq(unsigned, 1, Least(dots) - 1))

IntOfUnsigned(minus, unsigned) ==
    IntOfFraction(minus, unsigned,
                  {i \in 1..Len(unsigned) : unsigned[i] = "."})

IntOfTrimmed(trimmed) ==
    IntOfUnsigned(trimmed # <<>> /\ trimmed[1] = "-",
                  IF trimmed # <<>> /\ trimmed[1] \in {"+", "-"}
                  THEN Tail(trimmed) ELSE trimmed)

IntOfText(text) == IntOfTrimmed(StripWhitespace(text))

\* the int of a text that is one
Parsed(r) == [ok |-> r.ok, value |-> PyInt(r.n)]

\* an Optional[int] field given any value: None stays, an int stays, a bool
\* is 1 or 0, a str is parsed; anything else is the error int_type
OptionalInt(x) ==
    CASE x.t = "none" -> [ok |-> TRUE, value |-> PyNone]
      [] x.t = "int" -> [ok |-> TRUE, value |-> x]
      [] x.t = "bool" -> [ok |-> TRUE, value |-> PyInt(IF x.v THEN 1 ELSE 0)]
      [] x.t = "str" -> Parsed(IntOfText(Chars(x.v)))
      [] OTHER -> [ok |-> FALSE, value |-> PyNone]

\* timestamp_lt, entity_type, event_types and user are Optional and are given
\* as Python values
NoTimestamp == PyNone

\* the fields of MergeActivitiesRequest, timestamp_lt read as an int
MergeActivitiesFields(a, read) ==
    IF a.timestamp_gt <= 0 THEN Invalid("timestamp_gt must be a positive integer")
    ELSE IF ~(a.event_types.t = "none" \/ IsList(a.event_types))
    THEN Invalid("event_types: Input should be a valid list")
    ELSE IF /\ IsList(a.event_types)
            /\ \E i \in 1..Len(a.event_types.v) : ~IsStr(a.event_types.v[i])
    THEN Invalid("event_types: Input should be a valid string")
    ELSE IF ~read.ok
    THEN Invalid("timestamp_lt: Input should be a valid integer")
    ELSE IF IsInt(read.value) /\ read.value.v <= 0
    THEN Invalid("timestamp_lt must be a positive integer")
    ELSE IF ~(a.entity_type.t = "none" \/ IsStr(a.entity_type))
    THEN Invalid("entity_type: Input should be a valid string")
    ELSE IF /\ IsStr(a.entity_type)
            /\ Len(StripWhitespace(a.entity_type.v)) > MAX_ENTITY_TYPE_LENGTH
    THEN Invalid("entity_type: max_length")
    ELSE IF ~(a.user.t = "none" \/ IsStr(a.user))
    THEN Invalid("user: Input should be a valid string")
    ELSE IF ~TENANT_ID_PATTERN(a.tenant_id) THEN Invalid("tenant_id: pattern")
    ELSE IF a.offset < 0 THEN Invalid("offset: ge 0")
    ELSE IF a.max_results < 1 \/ a.max_results > MAX_RESULTS_LIMIT
    THEN Invalid("max_results: range")
    ELSE IF IsInt(read.value) /\ read.value.v <= a.timestamp_gt
    THEN Invalid("timestamp_lt must be greater than timestamp_gt")
    ELSE Valid([timestamp_gt |-> a.timestamp_gt,
                event_types |-> a.event_types,
                timestamp_lt |-> read.value,
                user |-> a.user,
                entity_type |->
                    IF IsStr(a.entity_type)
                    THEN PyStr(StripWhitespace(a.entity_type.v))
                    ELSE a.entity_type,
                tenant_id |-> a.tenant_id,
                offset |-> a.offset,
                max_results |-> a.max_results])

MergeActivitiesRequest(a) ==
    MergeActivitiesFields(a, OptionalInt(a.timestamp_lt))

(***************************************************************************)
(* The tool functions.  Every tool has the same frame                      *)
(*   try: validate; headers + gate; primary call; [secondary call];        *)
(*        audit; reshape; return                                           *)
(*   except Exception: return create_error_response(outer key)             *)
(* and the tables below give, per tool, what differs in the frame:         *)
(*   schema        the request schema, "none" when the tool has none       *)
(*   auth          "combined": get_reltio_headers and the gate share one   *)
(*                   try/except Exception -> AUTHENTICATION_ERROR          *)
(*                 "split": headers under except Exception ->              *)
(*                   AUTHENTICATION_ERROR, the gate under                  *)
(*                   except SecurityError -> security_key                  *)
(*   on404, on400  whether the handler of the primary call tests           *)
(*                 "404" in str(e), "400" in str(e)                        *)
(*   failed_key    the code_key of the handler's last return               *)
(*   failed_str    whether that message embeds str(e)                      *)
(*   outer_key     the code_key of the outermost handler                   *)
(***************************************************************************)
Cfg(schema, auth, security_key, on404, on400, failed_key, failed_str, outer_key) ==
    [schema |-> schema, auth |-> auth, security_key |-> security_key,
     on404 |-> on404, on400 |-> on400, failed_key |-> failed_key,
     failed_str |-> failed_str, outer_key |-> outer_key]

EntityTools ==
    [get_entity_details |->
        Cfg("EntityIdRequest", "combined", "", TRUE, FALSE,
            "SERVER_ERROR", FALSE, "SERVER_ERROR"),
     update_entity_attributes |->
        Cfg("UpdateEntityAttributesRequest", "combined", "", TRUE, FALSE,
            "SERVER_ERROR", FALSE, "SERVER_ERROR"),
     get_entity_matches |->
        Cfg("EntityIdRequest", "split", "SECURITY_ERROR", TRUE, FALSE,
            "SERVER_ERROR", FALSE, "SERVER_ERROR"),
     get_entity_match_history |->
        Cfg("EntityIdRequest", "split", "SECURITY_ERROR", TRUE, FALSE,
            "SERVER_ERROR", FALSE, "SERVER_ERROR"),
     merge_entities |->
        Cfg("MergeEntitiesRequest", "combined", "", TRUE, TRUE,
            "SERVER_ERROR", FALSE, "SERVER_ERROR"),
     reject_entity_match |->
        Cfg("RejectMatchRequest", "combined", "", TRUE, TRUE,
            "SERVER_ERROR", FALSE, "SERVER_ERROR"),
     export_merge_tree |->
        Cfg("none", "combined", "", FALSE, FALSE,
            "SERVER_ERROR", FALSE, "SERVER_ERROR"),
     unmerge_entity_by_contributor |->
        Cfg("UnmergeEntityRequest", "combined", "", TRUE, TRUE,
            "SERVER_ERROR", FALSE, "SERVER_ERROR"),
     unmerge_entity_tree_by_contributor |->
        Cfg("UnmergeEntityRequest", "combined", "", TRUE, TRUE,
            "SERVER_ERROR", FALSE, "SERVER_ERROR")]

RelationTools ==
    [get_relation_details |->
        Cfg("RelationIdRequest", "combined", "", TRUE, FALSE,
            "SERVER_ERROR", FALSE, "SERVER_ERROR")]

SearchTools ==
    [search_entities |->
        Cfg("EntitySearchRequest", "combined", "", FALSE, FALSE,
            "SERVER_ERROR", FALSE, "SERVER_ERROR")]

MatchTools ==
    [find_matches_by_match_score |->
        Cfg("MatchScoreRequest", "split", "SECURITY_ERROR", FALSE, FALSE,
            "SERVER_ERROR", TRUE, "SERVER_ERROR"),
     find_matches_by_confidence |->
        Cfg("ConfidenceLevelRequest", "split", "SECURITY_ERROR", FALSE, FALSE,
            "SERVER_ERROR", TRUE, "SERVER_ERROR"),
     get_total_matches |->
        Cfg("GetTotalMatchesRequest", "split", "SECURITY_ERROR", FALSE, FALSE,
            "SERVER_ERROR", TRUE, "SERVER_ERROR"),
     get_total_matches_by_entity_type |->
        Cfg("GetMatchFacetsRequest", "split", "SECURITY_ERROR", FALSE, FALSE,
            "SERVER_ERROR", TRUE, "SERVER_ERROR")]

ActivityTools ==
    [get_merge_activities |->
        Cfg("MergeActivitiesRequest", "split", "AUTHORIZATION_ERROR", TRUE, FALSE,
            "SERVER_ERROR", FALSE, "SERVER_ERROR")]

ConfigCfg ==
    Cfg("none", "combined", "", FALSE, FALSE,
        "API_REQUEST_ERROR", TRUE, "INTERNAL_SERVER_ERROR")

TenantConfigTools ==
    [get_business_configuration |-> ConfigCfg,
     get_tenant_permissions_metadata |-> ConfigCfg,
     get_tenant_metadata |-> ConfigCfg,
     get_data_model_definition |-> ConfigCfg,
     get_entity_type_definition |-> ConfigCfg,
     get_change_request_type_definition |-> ConfigCfg,
     get_relation_type_definition |-> ConfigCfg,
     get_interaction_type_definition |-> ConfigCfg,
     get_graph_type_definition |-> ConfigCfg,
     get_grouping_type_definition |-> ConfigCfg]

\* the tools that call the API (list_capabilities does not)
ToolTable ==
    EntityTools @@ RelationTools @@ SearchTools @@ MatchTools
        @@ ActivityTools @@ TenantConfigTools

ApiTools == DOMAIN ToolTable
Tools == ApiTools \cup {"list_capabilities"}

\* the message of a create_error_response call: the literal of the call,
\* named by the tool and the handler it stands in, then the text the
\* f-string appends to it
Message(tool, site, dyn) == <<tool, site>> \o dyn

(***************************************************************************)
(* What each tool does once its primary call has returned `body`:          *)
(*   secondary  whether it then fetches the source entity                  *)
(*   audit      whether it calls ActivityLog.execute_and_log_activity      *)
(*              (FALSE also when building the description raises inside    *)
(*              the try around the audit, or an earlier statement raises)  *)
(*   final      the value it returns after that, or the exception its      *)
(*              statements raise (caught by the outermost handler)         *)
(***************************************************************************)
Steps(secondary, audit, final) ==
    [secondary |-> secondary, audit |-> audit, final |-> final]

AllItems(list, P(_)) == \A i \in 1..Len(list.v) : P(list.v[i])

\* d.get(k, default)
Get(d, k, default) == IF k \in DOMAIN d.v THEN d.v[k] ELSE default

\* len(x) of a str, a list or a dict
Size(x) == IF IsDict(x) THEN Cardinality(DOMAIN x.v) ELSE Len(x.v)

\* filter_entity.is_valid (entity.py 21-22)
is_valid(value) ==
    /\ value.t # "none"
    /\ ~(value.t \in {"str", "list", "dict"} /\ Size(value) = 0)

\* k in subfields, for a list of names
Listed(subfields, k) ==
    \E i \in 1..Len(subfields.v) : subfields.v[i].v = k

\* the attributes of a mapping-valued field the allowlist keeps
\* (entity.py 33-43)
Subvalue(value, subfields) ==
    LET keep == IF Truthy(subfields)
                THEN {k \in DOMAIN value.v :
                        Listed(subfields, k) /\ is_valid(value.v[k])}
                ELSE {k \in DOMAIN value.v : is_valid(value.v[k])}
    IN Restricted(value, keep)

\* the loop of filter_entity over an entity that is a dict (entity.py 25-47)
FilterFields(entity, filter_field) ==
    LET Entry(field) ==
            IF IsDict(entity.v[field])
            THEN Subvalue(entity.v[field], filter_field.v[field])
            ELSE entity.v[field]
        kept == {field \in DOMAIN filter_field.v :
                   /\ field \in DOMAIN entity.v
                   /\ is_valid(entity.v[field])
                   /\ IsDict(entity.v[field]) => Truthy(Entry(field))}
    IN  PyDict(SelectSeq(filter_field.keys, LAMBDA field : field \in kept),
               [field \in kept |-> Entry(field)])

\* the same loop over an entity that is no dict: `field not in entity` is a
\* membership or substring test and entity[field] raises
FilterOther(entity, fields) ==
    Comprehension(
        [i \in 1..Len(fields) |->
            Then(PyIn(fields[i].v, entity),
                 LAMBDA found : IF found.v THEN Subscript(entity, fields[i].v)
                                ELSE PyNone)],
        LAMBDA out : PyDict(<<>>, EmptyMap))

\* filter_entity (entity.py 17-48)
filter_entity(entity, filter_field) ==
    IF filter_field.t = "none" THEN entity
    ELSE IF IsDict(entity) THEN FilterFields(entity, filter_field)
    ELSE FilterOther(entity, Items(filter_field))

RECURSIVE simplify_reltio_attributes(_)
RECURSIVE SimplifyItems(_)

\* mutation: a single value is left in its list
simplify_keep_lists(attributes_dict) ==
    LET simplified(key) == SimplifyItems(attributes_dict.v[key])
        keys == {key \in DOMAIN attributes_dict.v : Len(simplified(key)) > 0}
    IN PyDict(SelectSeq(attributes_dict.keys, LAMBDA key : key \in keys),
              [key \in keys |-> PyList(simplified(key))])

\* the loop over value_list (util.py 16-22)
SimplifyItems(items) ==
    IF ~IsList(items) \/ Len(items.v) = 0 THEN <<>>
    ELSE LET item == items.v[1]
             head == IF IsDict(item) /\ "value" \in DOMAIN item.v
                     THEN IF IsDict(item.v.value)
                          THEN <<simplify_reltio_attributes(item.v.value)>>
                          ELSE <<item.v.value>>
                     ELSE <<>>
         IN head \o SimplifyItems(PyList(Tail(items.v)))

\* simplify_reltio_attributes (util.py 8-31)
simplify_reltio_attributes(attributes_dict) ==
    LET simplified(key) == SimplifyItems(attributes_dict.v[key])
        keys == {key \in DOMAIN attributes_dict.v : Len(simplified(key)) > 0}
    IN IF ~IsDict(attributes_dict) THEN NoAttribute(attributes_dict, "items")
       ELSE PyDict(SelectSeq(attributes_dict.keys, LAMBDA key : key \in keys),
                   [key \in keys |->
                      IF Len(simplified(key)) = 1 THEN simplified(key)[1]
                      ELSE PyList(simplified(key))])

\* a or b
Or(a, b) == IF Truthy(a) THEN a ELSE b

\* x.rsplit("/", 1)[-1] when x is truthy and "/" in x, otherwise other
\* (util.py 44-53)
TrailingOr(x, other) ==
    LET Found(has) ==
            IF ~has.v THEN other
            ELSE IF ~IsStr(x) THEN NoAttribute(x, "rsplit")
            ELSE PyStr(LastSegment(Chars(x.v)))
    IN  IF ~Truthy(x) THEN other ELSE Then(PyIn("/", x), Found)

\* the record appended for one crosswalk (util.py 43-63)
SlimOne(cw) ==
    LET Record(id_value, type_value) ==
            PyDict(<<"id", "type", "value", "createDate">>,
                   [id |-> id_value,
                    type |-> type_value,
                    value |-> Get(cw, "value", PyNone),
                    createDate |-> Or(Get(cw, "createDate", PyNone),
                                      Or(Get(cw, "createTime", PyNone),
                                         Get(cw, "createdTime", PyNone)))])
        Typed(id_value) ==
            Then(TrailingOr(Get(cw, "type", PyStr(<<>>)),
                            Get(cw, "type", PyStr(<<>>))),
                 LAMBDA type_value : Record(id_value, type_value))
    IN  Then(TrailingOr(Get(cw, "uri", PyStr(<<>>)), Get(cw, "id", PyNone)),
             Typed)

\* the loop of slim_crosswalks: an item that is no dict is skipped
SlimItems(cws) ==
    [i \in 1..Len(cws) |-> IF IsDict(cws[i]) THEN SlimOne(cws[i]) ELSE PyNone]

\* slim_crosswalks (util.py 33-64)
slim_crosswalks(cws) ==
    ForEach(cws,
            LAMBDA items :
                Comprehension(SlimItems(items),
                              LAMBDA out : PyList(SelectSeq(out, IsDict))))

\* result of get_entity_details, for the filtered entity (entity.py 121-125)
DetailsOf(data) ==
    LET Slimmed(attributes) ==
            Then(slim_crosswalks(data.v.crosswalks),
                 LAMBDA crosswalks :
                     PyYaml(PyDict(<<"attributes", "crosswalks">>,
                                   [attributes |-> attributes,
                                    crosswalks |-> crosswalks])))
        Simplified(attributes) ==
            IF "crosswalks" \in DOMAIN data.v THEN Slimmed(attributes)
            ELSE PyYaml(PyDict(<<"attributes">>, [attributes |-> attributes]))
    IN  Then(Then(DotGet(data, "attributes", PyDict(<<>>, EmptyMap)),
                  simplify_reltio_attributes),
             Simplified)

\* the result of get_entity_details after the audit call (entity.py 120-125)
EntityDetails(entity, filter_field) ==
    Then(IF Truthy(filter_field)
         THEN filter_entity(entity, filter_field) ELSE entity,
         DetailsOf)

\* one entry of the comprehension of format_entity_matches: the key is
\* evaluated first, then the values, then the key is hashed
MatchEntry(d) ==
    LET Entry(uri) ==
            IF uri.t \in {"list", "dict"} THEN Unhashable(uri)
            ELSE [t |-> "entry", key |-> uri,
                  value |-> PyDict(<<"matchRules", "createdTime", "matchScore",
                                     "relevance", "label">>,
                                   [matchRules |-> d.v.matchRules,
                                    createdTime |-> d.v.createdTime,
                                    matchScore |-> d.v.matchScore,
                                    relevance |-> Get(d, "relevance", PyNone),
                                    label |-> Get(d, "label", PyNone)])]
        Values(uri) ==
            Then(FirstRaise(<<Subscript(d, "matchRules"),
                              Subscript(d, "createdTime"),
                              Subscript(d, "matchScore")>>),
                 LAMBDA none : Entry(uri))
    IN  Then(Then(Subscript(d, "object"),
                  LAMBDA object : Subscript(object, "uri")),
             Values)

\* what a dict compares to tell one key from another: True is the key 1 and
\* False the key 0
Hashed(key) == IF key.t = "bool" THEN PyInt(IF key.v THEN 1 ELSE 0) ELSE key

\* the dict the entries build: an entry of a key the dict has replaces the
\* value and leaves the key as it was first given.  The keys are the uris as
\* strings, or the uris as Python values when one of them is no str.
MatchDict(entries) ==
    LET AllStr == \A i \in 1..Len(entries) : IsStr(entries[i].key)
        Key(i) == IF AllStr THEN entries[i].key.v ELSE entries[i].key
        hashed == [i \in 1..Len(entries) |-> Hashed(entries[i].key)]
        order == Ascending(Firsts(hashed))
        First(k) == CHOOSE i \in Firsts(hashed) : Key(i) = k
    IN  PyDict([n \in 1..Len(order) |-> Key(order[n])],
               [k \in {Key(i) : i \in Firsts(hashed)} |->
                   entries[LastIndex(hashed, hashed[First(k)])].value])

\* format_entity_matches (util.py 66-72)
format_entity_matches(matches) ==
    ForEach(matches,
            LAMBDA items :
                Comprehension([i \in 1..Len(items) |-> MatchEntry(items[i])],
                              MatchDict))

\* get_entity_details, after http_request (entity.py 111-125)
get_entity_details(a, req, entity) ==
    Steps(FALSE, IsDict(entity), EntityDetails(entity, a.filter_field))

\* update_entity_attributes, after http_request (entity.py 193-203)
update_entity_attributes(a, req, result) ==
    Steps(FALSE, TRUE, PyYaml(result))

\* get_entity_matches once the source entity is fetched (entity.py 317-333)
MatchesFormatted(req, formatted) ==
    Steps(TRUE,
          ~IsRaise(formatted),
          IF IsRaise(formatted) THEN formatted
          ELSE PyYaml(PyDict(<<"source_entity", "matches">>,
                             [source_entity |-> PyStr(req.entity_id),
                              matches |-> formatted])))

\* mutation: get_entity_matches without the check for an empty result
get_entity_matches_no_short_circuit(a, req, matches_result) ==
    MatchesFormatted(req, format_entity_matches(matches_result))

\* get_entity_matches, after the transitive-match call (entity.py 296-333)
get_entity_matches(a, req, matches_result) ==
    IF ~Truthy(matches_result)
    THEN Steps(FALSE, FALSE,
               PyDict(<<"message", "matches">>,
                      [message |->
                           PyStr(<<"No potential matches found for entity ">>
                                 \o req.entity_id \o <<".">>),
                       matches |-> PyList(<<>>)]))
    ELSE IF ~Iterable(matches_result)
    THEN Steps(FALSE, FALSE, PyLen(matches_result))
    ELSE MatchesFormatted(req, format_entity_matches(matches_result))

\* mutation: a failed source-entity fetch turns the result into an envelope
get_entity_matches_partial_as_error(matches_result, msg) ==
    create_error_response("SERVER_ERROR",
                          <<"Failed to retrieve source entity">>, PyNone)

\* get_entity_matches when the source-entity fetch raises (entity.py 308-315)
get_entity_matches_partial(matches_result, msg) ==
    PyDict(<<"message", "matches">>,
           [message |->
                PyStr(<<"Found matches but could not retrieve source entity details: ">>
                      \o msg),
            matches |-> matches_result])

\* for x in xs: x.get(...) runs without an exception
AllDicts(xs) == Iterable(xs) /\ AllItems(PyList(Items(xs)), IsDict)

\* get_entity_match_history, after the crosswalk-tree call (entity.py 411-454)
get_entity_match_history(a, req, match_history) ==
    IF ~Truthy(match_history)
    THEN Steps(FALSE, TRUE,
               PyDict(<<"message", "match_history">>,
                      [message |->
                           PyStr(<<"No match history found for entity ">>
                                 \o req.entity_id \o <<".">>),
                       match_history |-> PyList(<<>>)]))
    ELSE IF ~Iterable(match_history)
    THEN Steps(FALSE, FALSE, PyLen(match_history))
    ELSE Steps(TRUE,
               /\ IsDict(match_history)
               /\ AllDicts(Get(match_history, "crosswalks", PyList(<<>>))),
               PyYaml(match_history))

\* get_entity_match_history when the source-entity fetch raises (432-439)
get_entity_match_history_partial(match_history, msg) ==
    PyDict(<<"message", "match_history">>,
           [message |->
                PyStr(<<"Found match history but could not retrieve source entity details: ">>
                      \o msg),
            match_history |-> match_history])

\* merge_entities, after http_request (entity.py 537-546)
merge_entities(a, req, merge_result) ==
    Steps(FALSE, TRUE, merge_result)

\* reject_entity_match, after http_request (entity.py 636-650)
reject_entity_match(a, req, reject_result) ==
    Steps(FALSE, TRUE,
          IF ~Truthy(reject_result)
          THEN PyDict(<<"success", "message">>,
                      [success |-> PyBool(TRUE),
                       message |->
                           PyStr(<<"Successfully rejected match between entities ">>
                                 \o req.source_id \o <<" and ">> \o req.target_id)])
          ELSE reject_result)

\* export_merge_tree, after http_request (entity.py 703-711)
export_merge_tree(a, req, result) ==
    Steps(FALSE, TRUE, result)

\* unmerge_entity_by_contributor, after http_request (entity.py 796-804)
unmerge_entity_by_contributor(a, req, unmerge_result) ==
    Steps(FALSE, TRUE, unmerge_result)

\* unmerge_entity_tree_by_contributor, after http_request (entity.py 892-900)
unmerge_entity_tree_by_contributor(a, req, unmerge_result) ==
    Steps(FALSE, TRUE, unmerge_result)

\* get_relation_details, after http_request (relation.py 62-70)
get_relation_details(a, req, relation) ==
    Steps(FALSE, TRUE,
          Then(Then(Subscript(relation, "attributes"),
                    simplify_reltio_attributes),
               LAMBDA simplified :
                   PyYaml(PyDict(
                       relation.keys,
                       [relation.v EXCEPT !["attributes"] = simplified]))))

(***************************************************************************)
(* src/src/server.py: the registered search tool                           *)
(***************************************************************************)
TypeClauseHead ==
    <<"e", "q", "u", "a", "l", "s", "(", "t", "y", "p", "e", ",", "'",
      "c", "o", "n", "f", "i", "g", "u", "r", "a", "t", "i", "o", "n",
      "/", "e", "n", "t", "i", "t", "y", "T", "y", "p", "e", "s", "/">>
TypeClauseTail == <<"'", ")">>
\* equals(type,'configuration/entityTypes/T')
TypeClause(entity_type) == TypeClauseHead \o entity_type \o TypeClauseTail
AndText == <<" ", "a", "n", "d", " ">>
UriText == <<"u", "r", "i">>
DefaultSelect == <<"u", "r", "i", ",", "l", "a", "b", "e", "l">>

\* search_entities_tool: the arguments it hands to search_entities
search_entities_tool(a) ==
    LET flt == IF a.filter # <<>> /\ a.entity_type # <<>>
               THEN a.filter \o AndText \o TypeClause(a.entity_type)
               ELSE IF a.entity_type # <<>> THEN TypeClause(a.entity_type)
               ELSE a.filter
        sel0 == IF a.select = <<>> \/ strip(a.select) = <<>>
                THEN DefaultSelect ELSE a.select
        sel == IF ~Contains(sel0, UriText) THEN UriText \o <<",">> \o sel0
               ELSE sel0
    IN  [a EXCEPT !.filter = flt,
                  !.select = sel,
                  !.max_results = IF @ < ToolResultCap THEN @ ELSE ToolResultCap]

\* what the registered tool of server.py hands to the tool function
ServerArgs(tool, a) ==
    IF tool = "search_entities" THEN search_entities_tool(a)
    ELSE IF tool \in {"find_matches_by_match_score", "find_matches_by_confidence"}
    THEN [a EXCEPT !.max_results =
              IF @ < ToolResultCap THEN @ ELSE ToolResultCap]
    ELSE a

RECURSIVE Split(_, _)
\* s.split(c)
Split(s, c) ==
    IF \A i \in 1..Len(s) : s[i] # c THEN <<s>>
    ELSE LET k == CHOOSE i \in 1..Len(s) :
                      s[i] = c /\ \A j \in 1..(i - 1) : s[j] # c
         IN  <<SubSeq(s, 1, k - 1)>> \o Split(SubSeq(s, k + 1, Len(s)), c)

\* the dictionary key a selected field reads from an entity
FieldNames ==
    [label |-> <<"l", "a", "b", "e", "l">>, type |-> <<"t", "y", "p", "e">>,
     uri |-> UriText]
AttributesText ==
    <<"a", "t", "t", "r", "i", "b", "u", "t", "e", "s">>
KeyOf(field) ==
    IF StartsWith(field, AttributesText) THEN "attributes" ELSE Join(field)
NotUri(field) == field # UriText
\* select_fields of search_entities
SelectFields(select) == SelectSeq(Split(select, ","), NotUri)

\* the payload search_entities posts
SearchPayload(req) ==
    [filter |-> req.filter, select |-> req.select,
     max |-> IF req.max_results < ToolResultCap THEN req.max_results
             ELSE ToolResultCap,
     offset |-> req.offset,
     scoreEnabled |-> FALSE,
     options |-> req.options,
     activeness |-> req.activeness]
        @@ (IF req.sort # <<>>
            THEN [sort |-> req.sort, order |-> req.order]
            ELSE EmptyMap)

\* search_entities, after http_request (search.py 103-125).  The description of the audit record names
\* entity_id_label_pairs, which is not defined: the NameError is caught by
\* the try around the audit and execute_and_log_activity is not called.
\* An item of the result is the uri when no field is selected, and
\* otherwise {uri: entity_dict}, written [uri |-> uri, fields |-> entity_dict].
SelectedEntity(fields, entity) ==
    LET Field(f) ==
            IF StartsWith(f, AttributesText)
            THEN Then(Subscript(entity, "attributes"),
                      simplify_reltio_attributes)
            ELSE Subscript(entity, Join(f))
        Keyed(values, uri) ==
            IF Len(fields) = 0 THEN uri
            ELSE IF uri.t \in {"list", "dict"} THEN Unhashable(uri)
            ELSE PyDict(<<"uri", "fields">>,
                        [uri |-> uri,
                         fields |->
                             Inserted([i \in 1..Len(fields) |->
                                          KeyOf(fields[i])],
                                      values)])
    IN  Comprehension([i \in 1..Len(fields) |-> Field(fields[i])],
                      LAMBDA values :
                          Then(Subscript(entity, "uri"),
                               LAMBDA uri : Keyed(values, uri)))

search_entities(a, req, result) ==
    Steps(FALSE, FALSE,
          ForEach(result,
                  LAMBDA items :
                      Comprehension(
                          [i \in 1..Len(items) |->
                              SelectedEntity(
                                  SelectFields(search_entities_tool(a).select),
                                  items[i])],
                          LAMBDA entries : PyYaml(PyList(entries)))))

(***************************************************************************)
(* src/src/tools/match.py: the filter expressions of the payloads          *)
(***************************************************************************)
RangeHead ==
    <<"(", "r", "a", "n", "g", "e", "(", "p", "o", "t", "e", "n", "t",
      "i", "a", "l", "M", "a", "t", "c", "h", "e", "s", ".", "m", "a",
      "t", "c", "h", "S", "c", "o", "r", "e", ",">>
ActionLabelHead ==
    <<"e", "q", "u", "a", "l", "s", "(", "r", "e", "l", "e", "v", "a",
      "n", "c", "e", "S", "c", "o", "r", "e", "s", ".", "a", "c", "t",
      "i", "o", "n", "L", "a", "b", "e", "l", ",", "'">>
GtHead ==
    <<"(", "g", "t", "(", "m", "a", "t", "c", "h", "e", "s", ",", "'">>

\* find_matches_by_match_score: filter_expression (match.py 73)
MatchScoreFilter(req) ==
    RangeHead \o NatToChars(req.start_match_score) \o <<",">>
        \o NatToChars(req.end_match_score) \o <<")">> \o AndText
        \o TypeClause(req.entity_type)

\* find_matches_by_confidence: filter_expression (match.py 177)
ConfidenceFilter(req) ==
    <<"(">> \o TypeClause(req.entity_type) \o AndText
        \o ActionLabelHead \o req.confidence_level \o <<"'", ")", ")">>
        \o AndText \o TypeClause(req.entity_type)

\* get_total_matches: filter_expression (match.py 276);
\* get_total_matches_by_entity_type: filter_param (match.py 363)
TotalMatchesFilter(req) ==
    GtHead \o NatToChars(req.min_matches) \o <<"'", ")", ")">>

FilterTools ==
    {"search_entities", "find_matches_by_match_score",
     "find_matches_by_confidence", "get_total_matches",
     "get_total_matches_by_entity_type"}

\* the filter of the payload a tool posts
FilterSent(tool, req) ==
    CASE tool = "search_entities" -> SearchPayload(req).filter
      [] tool = "find_matches_by_match_score" -> MatchScoreFilter(req)
      [] tool = "find_matches_by_confidence" -> ConfidenceFilter(req)
      [] tool = "get_total_matches" -> TotalMatchesFilter(req)
      [] tool = "get_total_matches_by_entity_type" -> TotalMatchesFilter(req)

\* the projection of the two match-search tools (match.py 103-110, 207-214)
MatchProjection(m) ==
    Then(FirstRaise(<<Subscript(m, "uri"), Subscript(m, "label"),
                      Subscript(m, "type")>>),
         LAMBDA none : PyDict(<<"uri", "label", "type">>,
                              [uri |-> m.v.uri, label |-> m.v.label,
                               type |-> m.v.type]))

MatchSearchFinal(none_found, result) ==
    IF ~Truthy(result)
    THEN PyDict(<<"message", "results">>,
                [message |-> PyStr(none_found), results |-> PyList(<<>>)])
    ELSE IF ~Iterable(result) THEN PyLen(result)
    ELSE ForEach(result,
                 LAMBDA items :
                     Comprehension(
                         [i \in 1..Len(items) |-> MatchProjection(items[i])],
                         LAMBDA out : PyYaml(PyList(out))))

\* find_matches_by_match_score, after http_request (match.py 94-110)
find_matches_by_match_score(a, req, result) ==
    Steps(FALSE, TRUE,
          MatchSearchFinal(
              <<"No potential matches found for entity type ">>
                  \o req.entity_type
                  \o <<" with match score between ",
                       ToString(req.start_match_score), " and ",
                       ToString(req.end_match_score), ".">>,
              result))

\* find_matches_by_confidence, after http_request (match.py 198-214)
find_matches_by_confidence(a, req, result) ==
    Steps(FALSE, TRUE,
          MatchSearchFinal(
              <<"No potential matches found for entity type ">>
                  \o req.entity_type \o <<" with confidence level ">>
                  \o req.confidence_level \o <<".">>,
              result))

\* result and k in result
TruthyAndIn(k, result) ==
    IF Truthy(result) THEN PyIn(k, result) ELSE PyBool(FALSE)

\* the steps of a tool that reads result[k] when `has` (result and k in
\* result) holds: `audited` tells whether its audit call is made although
\* result[k] raises
CountSteps(has, value, audited, Found(_), missing) ==
    IF IsRaise(has) THEN Steps(FALSE, FALSE, has)
    ELSE IF ~has.v THEN Steps(FALSE, FALSE, missing)
    ELSE IF IsRaise(value) THEN Steps(FALSE, audited, value)
    ELSE Steps(FALSE, TRUE, Found(value))

\* get_total_matches, after http_request (match.py 293-312): the
\* description of the audit record reads result['total'] inside the try
get_total_matches(a, req, result) ==
    CountSteps(TruthyAndIn("total", result), Subscript(result, "total"),
               FALSE,
               LAMBDA total :
                   PyDict(<<"total", "min_matches", "message">>,
                          [total |-> total,
                           min_matches |-> PyInt(req.min_matches),
                           message |->
                               PyStr(<<"Found ">> \o Str(total)
                                     \o <<" entities with more than ",
                                          ToString(req.min_matches),
                                          " potential matches.">>)]),
               PyDict(<<"error", "message", "details">>,
                      [error |-> PyStr("RESPONSE_ERROR"),
                       message |->
                           PyStr(<<"API response did not contain a total count">>),
                       details |-> result]))

\* get_total_matches_by_entity_type, after http_request (match.py 396-416):
\* the audit call comes before result["type"] is read
get_total_matches_by_entity_type(a, req, result) ==
    CountSteps(TruthyAndIn("type", result), Subscript(result, "type"),
               TRUE,
               LAMBDA type_counts :
                   PyDict(<<"type_counts", "min_matches", "message">>,
                          [type_counts |-> type_counts,
                           min_matches |-> PyInt(req.min_matches),
                           message |->
                               PyStr(<<"Found entities by type with more than ",
                                       ToString(req.min_matches),
                                       " potential matches.">>)]),
               PyDict(<<"error", "message", "details">>,
                      [error |-> PyStr("RESPONSE_ERROR"),
                       message |->
                           PyStr(<<"API response did not contain facet counts">>),
                       details |-> result]))

\* activity.get("uri", "") is a str
HasStrUri(activity) ==
    IsDict(activity) /\ IsStr(Get(activity, "uri", PyStr(<<>>)))

\* get_merge_activities, after http_request (activity.py 166-176): the
\* description joins the uris, so each has to be a str
get_merge_activities(a, req, response) ==
    Steps(FALSE,
          Iterable(response) /\ AllItems(PyList(Items(response)), HasStrUri),
          PyYaml(response))

\* the defaults of the .get calls of tenant_config.py
NoText == PyStr(<<>>)
NoList == PyList(<<>>)
NoDict == PyDict(<<>>, EmptyMap)

\* {key: item.get(key, default), ...} for the keys and defaults of the dict
\* `defaults`
Projection(item, defaults) ==
    IF ~IsDict(item) THEN NoAttribute(item, "get")
    ELSE PyDict(defaults.keys,
                [k \in DOMAIN defaults.v |->
                    IF k \in DOMAIN item.v THEN item.v[k] ELSE defaults.v[k]])

\* the loop that appends the projection of every item of xs
ProjectEach(xs, defaults) ==
    ForEach(xs,
            LAMBDA items :
                Comprehension([i \in 1..Len(items) |->
                                  Projection(items[i], defaults)],
                              LAMBDA out : PyList(out)))

\* the end of a tool that builds its response, then makes the audit call
\* and returns yaml.dump(response)
AuditedYaml(response) ==
    Steps(FALSE, ~IsRaise(response),
          IF IsRaise(response) THEN response ELSE PyYaml(response))

\* get_business_configuration, after http_request (tenant_config.py 53-57):
\* the tool has no audit call and returns the dict itself
get_business_configuration(a, req, business_config) ==
    Steps(FALSE, FALSE,
          Projection(business_config,
                     PyDict(<<"uri", "description", "schemaVersion",
                              "sources">>,
                            [uri |-> NoDict, description |-> NoDict,
                             schemaVersion |-> NoDict, sources |-> NoDict])))

\* get_tenant_permissions_metadata, after http_request (tenant_config.py 103-111)
get_tenant_permissions_metadata(a, req, permissions_metadata) ==
    Steps(FALSE, TRUE, PyYaml(permissions_metadata))

\* get_tenant_metadata (tenant_config.py 142-165): the keys of the response
\* in the order of the statements, those copied with the default "" and
\* those of which the length is taken
MetadataKeys ==
    <<"uri", "description", "schemaVersion", "sources", "label",
      "createdTime", "updatedTime", "createdBy", "updatedBy", "entityTypes",
      "changeRequestTypes", "relationTypes", "interactionTypes", "graphTypes",
      "survivorshipStrategies", "groupingTypes">>
CopiedKeys ==
    {"uri", "description", "schemaVersion", "label", "createdTime",
     "updatedTime", "createdBy", "updatedBy"}
CountedKeys == SelectSeq(MetadataKeys, LAMBDA k : k \notin CopiedKeys)

TenantMetadata(business_config, counts) ==
    PyDict(MetadataKeys,
           [k \in CopiedKeys \cup {CountedKeys[i] : i \in 1..Len(CountedKeys)} |->
               IF k \in CopiedKeys THEN Get(business_config, k, NoText)
               ELSE counts[CHOOSE i \in 1..Len(CountedKeys) :
                              CountedKeys[i] = k]])

get_tenant_metadata(a, req, business_config) ==
    AuditedYaml(
        IF ~IsDict(business_config) THEN NoAttribute(business_config, "get")
        ELSE Comprehension(
                 [i \in 1..Len(CountedKeys) |->
                     PyLen(Get(business_config, CountedKeys[i], NoList))],
                 LAMBDA counts : TenantMetadata(business_config, counts)))

\* get_data_model_definition (tenant_config.py 195-259): the sections in the
\* order of the statements, each with the keys of its records
Sections ==
    <<[name |-> "entityTypes",
       fields |-> PyDict(<<"uri", "label", "description">>,
                         [uri |-> NoText, label |-> NoText, description |-> NoText])],
      [name |-> "changeRequestTypes",
       fields |-> PyDict(<<"uri">>, [uri |-> NoText])],
      [name |-> "relationTypes",
       fields |-> PyDict(<<"uri", "label", "description">>,
                         [uri |-> NoText, label |-> NoText, description |-> NoText])],
      [name |-> "interactionTypes",
       fields |-> PyDict(<<"uri", "label">>,
                         [uri |-> NoText, label |-> NoText])],
      [name |-> "graphTypes",
       fields |-> PyDict(<<"uri", "label", "relationshipTypeURIs">>,
                         [uri |-> NoText, label |-> NoText,
                          relationshipTypeURIs |-> NoList])],
      [name |-> "survivorshipStrategies",
       fields |-> PyDict(<<"uri", "label">>,
                         [uri |-> NoText, label |-> NoText])],
      [name |-> "groupingTypes",
       fields |-> PyDict(<<"uri", "description">>,
                         [uri |-> NoText, description |-> NoText])]>>

\* len(object_type) == 0 or name in object_type
Selected(object_type, name) ==
    \/ Len(object_type) = 0
    \/ \E j \in 1..Len(object_type) : object_type[j] = name

DataModel(object_type, out) ==
    PyDict(SelectSeq([i \in 1..Len(Sections) |-> Sections[i].name],
                     LAMBDA name : Selected(object_type, name)),
           [k \in {Sections[i].name : i \in {j \in 1..Len(Sections) :
                      Selected(object_type, Sections[j].name)}} |->
               out[CHOOSE i \in 1..Len(Sections) : Sections[i].name = k]])

\* a section that is not selected is not read: None stands for its outcome
get_data_model_definition(a, req, business_config) ==
    AuditedYaml(
        Comprehension(
            [i \in 1..Len(Sections) |->
                IF ~Selected(a.object_type, Sections[i].name) THEN PyNone
                ELSE Then(DotGet(business_config, Sections[i].name, NoList),
                          LAMBDA xs : ProjectEach(xs, Sections[i].fields))],
            LAMBDA out : DataModel(a.object_type, out)))

\* the records of the get_*_type_definition_util functions
\* (tenant_config.py 277-380): the section read, the argument compared with
\* the uri, the keys copied, the keys read as x.get(k, {}).get("objectTypeURI",
\* "") and the lists projected, each in the order of the statements
AttributeFields ==
    PyDict(<<"label", "name", "description", "type", "required",
             "searchable">>,
           [label |-> NoText, name |-> NoText, description |-> NoText,
            type |-> NoText, required |-> PyBool(FALSE),
            searchable |-> PyBool(FALSE)])

Definitions ==
    [get_entity_type_definition |->
        [section |-> "entityTypes", arg |-> "entity_type",
         fields |-> PyDict(<<"uri", "label", "description">>,
                           [uri |-> NoText, label |-> NoText, description |-> NoText]),
         objects |-> <<>>,
         lists |-> <<[name |-> "attributes", fields |-> AttributeFields]>>],
     get_change_request_type_definition |->
        [section |-> "changeRequestTypes", arg |-> "change_request_type",
         fields |-> PyDict(<<"uri">>, [uri |-> NoText]),
         objects |-> <<>>, lists |-> <<>>],
     get_relation_type_definition |->
        [section |-> "relationTypes", arg |-> "relation_type",
         fields |-> PyDict(<<"uri", "label", "description">>,
                           [uri |-> NoText, label |-> NoText, description |-> NoText]),
         objects |-> <<"startObject", "endObject">>,
         lists |-> <<[name |-> "attributes", fields |-> AttributeFields]>>],
     get_interaction_type_definition |->
        [section |-> "interactionTypes", arg |-> "interaction_type",
         fields |-> PyDict(<<"uri", "label">>,
                           [uri |-> NoText, label |-> NoText]),
         objects |-> <<>>,
         lists |-> <<[name |-> "memberTypes", fields |-> PyDict(<<"name">>,
                                                                [name |-> NoText])],
                     [name |-> "attributes",
                      fields |-> PyDict(<<"label", "name", "type">>,
                                        [label |-> NoText, name |-> NoText,
                                         type |-> NoText])]>>],
     get_graph_type_definition |->
        [section |-> "graphTypes", arg |-> "graph_type",
         fields |-> PyDict(<<"uri", "label", "relationshipTypeURIs">>,
                           [uri |-> NoText, label |-> NoText,
                            relationshipTypeURIs |-> NoList]),
         objects |-> <<>>, lists |-> <<>>],
     get_grouping_type_definition |->
        [section |-> "groupingTypes", arg |-> "grouping_type",
         fields |-> PyDict(<<"uri", "description", "source">>,
                           [uri |-> NoText, description |-> NoText,
                            source |-> NoText]),
         objects |-> <<>>, lists |-> <<>>]]

\* the record built for the type x_type whose uri is the one asked for
TypeInfo(def, x_type) ==
    LET Object(i) ==
            DotGet(Get(x_type, def.objects[i], NoDict), "objectTypeURI", NoText)
        ListOf(i) ==
            ProjectEach(Get(x_type, def.lists[i].name, NoList),
                        def.lists[i].fields)
        Info(objects, lists) ==
            PyDict(def.fields.keys \o def.objects
                       \o [i \in 1..Len(def.lists) |-> def.lists[i].name],
                   [k \in DOMAIN def.fields.v |->
                       Get(x_type, k, def.fields.v[k])]
                   @@ [k \in {def.objects[i] : i \in 1..Len(def.objects)} |->
                          objects[CHOOSE i \in 1..Len(def.objects) :
                                     def.objects[i] = k]]
                   @@ [k \in {def.lists[i].name : i \in 1..Len(def.lists)} |->
                          lists[CHOOSE i \in 1..Len(def.lists) :
                                   def.lists[i].name = k]])
    IN  Comprehension(
            [i \in 1..Len(def.objects) |-> Object(i)],
            LAMBDA objects :
                Comprehension([i \in 1..Len(def.lists) |-> ListOf(i)],
                              LAMBDA lists : Info(objects, lists)))

\* get_*_type_definition_util: the loop stops at the first item that is no
\* dict (x.get raises) or whose uri is the one asked for
definition_util(def, wanted, types) ==
    LET Stops(items) ==
            {i \in 1..Len(items) :
                \/ ~IsDict(items[i])
                \/ SameText(Get(items[i], "uri", NoText), wanted)}
        Found(item) ==
            IF ~IsDict(item) THEN NoAttribute(item, "get")
            ELSE TypeInfo(def, item)
    IN  ForEach(types,
                LAMBDA items :
                    IF Stops(items) = {} THEN NoDict
                    ELSE Found(items[Least(Stops(items))]))

\* get_*_type_definition, after http_request (tenant_config.py 402-410 and
\* the five functions after it)
get_type_definition(tool, a, business_config) ==
    AuditedYaml(
        Then(DotGet(business_config, Definitions[tool].section, NoList),
             LAMBDA types :
                 definition_util(Definitions[tool],
                                 a[Definitions[tool].arg], types)))

\* the dispatch on the tool's name
ToolSteps(tool, a, req, body) ==
    CASE tool = "get_entity_details" -> get_entity_details(a, req, body)
      [] tool = "update_entity_attributes" -> update_entity_attributes(a, req, body)
      [] tool = "get_entity_matches" -> get_entity_matches(a, req, body)
      [] tool = "get_entity_match_history" -> get_entity_match_history(a, req, body)
      [] tool = "merge_entities" -> merge_entities(a, req, body)
      [] tool = "reject_entity_match" -> reject_entity_match(a, req, body)
      [] tool = "export_merge_tree" -> export_merge_tree(a, req, body)
      [] tool = "unmerge_entity_by_contributor" ->
            unmerge_entity_by_contributor(a, req, body)
      [] tool = "unmerge_entity_tree_by_contributor" ->
            unmerge_entity_tree_by_contributor(a, req, body)
      [] tool = "get_relation_details" -> get_relation_details(a, req, body)
      [] tool = "search_entities" -> search_entities(a, req, body)
      [] tool = "find_matches_by_match_score" ->
            find_matches_by_match_score(a, req, body)
      [] tool = "find_matches_by_confidence" ->
            find_matches_by_confidence(a, req, body)
      [] tool = "get_total_matches" -> get_total_matches(a, req, body)
      [] tool = "get_total_matches_by_entity_type" ->
            get_total_matches_by_entity_type(a, req, body)
      [] tool = "get_merge_activities" -> get_merge_activities(a, req, body)
      [] tool = "get_business_configuration" ->
            get_business_configuration(a, req, body)
      [] tool = "get_tenant_permissions_metadata" ->
            get_tenant_permissions_metadata(a, req, body)
      [] tool = "get_tenant_metadata" -> get_tenant_metadata(a, req, body)
      [] tool = "get_data_model_definition" ->
            get_data_model_definition(a, req, body)
      [] OTHER -> get_type_definition(tool, a, body)

\* the value returned when the source-entity fetch raises
ToolPartial(tool, body, msg) ==
    IF tool = "get_entity_matches"
    THEN get_entity_matches_partial(body, msg)
    ELSE get_entity_match_history_partial(body, msg)

(***************************************************************************)
(* The handlers of the tool frame                                          *)
(***************************************************************************)
\* str(e)
StrOfExc(exc) == exc.v.msg

\* the request handed to the schema: three tools cap max_results first
\* (search.py 48, match.py 40, match.py 145)
SchemaArgs(tool, a) ==
    IF tool \in {"search_entities", "find_matches_by_match_score",
                 "find_matches_by_confidence"}
    THEN [a EXCEPT !.max_results =
              IF @ < ToolResultCap THEN @ ELSE ToolResultCap]
    ELSE a

\* the validation step of a tool: its schema applied to its arguments
Validate(tool, a) ==
    LET schema == ToolTable[tool].schema
        sa == SchemaArgs(tool, ServerArgs(tool, a))
    IN  CASE schema = "EntityIdRequest" -> EntityIdRequest(sa)
          [] schema = "UpdateEntityAttributesRequest" ->
                UpdateEntityAttributesRequest(sa)
          [] schema = "MergeEntitiesRequest" -> MergeEntitiesRequest(sa)
          [] schema = "RejectMatchRequest" -> RejectMatchRequest(sa)
          [] schema = "UnmergeEntityRequest" -> UnmergeEntityRequest(sa)
          [] schema = "RelationIdRequest" -> RelationIdRequest(sa)
          [] schema = "EntitySearchRequest" -> EntitySearchRequest(sa)
          [] schema = "MatchScoreRequest" -> MatchScoreRequest(sa)
          [] schema = "ConfidenceLevelRequest" -> ConfidenceLevelRequest(sa)
          [] schema = "GetTotalMatchesRequest" -> GetTotalMatchesRequest(sa)
          [] schema = "GetMatchFacetsRequest" -> GetMatchFacetsRequest(sa)
          [] schema = "MergeActivitiesRequest" -> MergeActivitiesRequest(sa)
          [] OTHER -> Valid(a)

\* mutation: the ValueError is left to the outermost handler
ValidationUncaught(tool, err) ==
    create_error_response(ToolTable[tool].outer_key,
                          Message(tool, "unexpected", <<>>), PyNone)

\* except ValueError as e: return create_error_response("VALIDATION_ERROR", ...)
ValidationHandler(tool, err) ==
    create_error_response("VALIDATION_ERROR",
                          Message(tool, "validation", <<err>>), PyNone)

\* the handler around get_reltio_headers()
AuthHandler(tool, exc) ==
    create_error_response("AUTHENTICATION_ERROR",
                          Message(tool, "authentication", <<>>), PyNone)

\* mutation: every tool answers a rejected gate as a failed authentication
GateHandlerAsAuth(tool, exc) == AuthHandler(tool, exc)

\* the handler that catches what validate_connection_security raises
GateHandler(tool, exc) ==
    IF ToolTable[tool].auth = "split"
    THEN create_error_response(ToolTable[tool].security_key,
                               Message(tool, "security", <<>>), PyNone)
    ELSE AuthHandler(tool, exc)

\* the id an f-string of the 404 branch names
NotFoundDyn(tool, req) ==
    IF ToolTable[tool].schema \in {"EntityIdRequest",
                                   "UpdateEntityAttributesRequest"}
    THEN req.entity_id
    ELSE IF ToolTable[tool].schema = "RelationIdRequest"
    THEN req.relation_id
    ELSE <<>>

\* mutation: the handler without its substring tests
PrimaryHandlerUnclassified(tool, req, exc) ==
    create_error_response(ToolTable[tool].failed_key,
                          Message(tool, "failed", <<>>), PyNone)

\* the handler around the primary http_request call
PrimaryHandler(tool, req, exc) ==
    LET cfg == ToolTable[tool]
        msg == StrOfExc(exc)
    IN  IF cfg.on404 /\ Contains(msg, Sub404)
        THEN create_error_response("RESOURCE_NOT_FOUND",
                 Message(tool, "not_found", NotFoundDyn(tool, req)), PyNone)
        ELSE IF cfg.on400 /\ Contains(msg, Sub400)
        THEN create_error_response("INVALID_REQUEST",
                 Message(tool, "invalid_request", msg), PyNone)
        ELSE create_error_response(cfg.failed_key,
                 Message(tool, "failed",
                         IF cfg.failed_str THEN msg ELSE <<>>), PyNone)

\* mutation: no outermost handler, the exception leaves the tool
OuterPropagates(tool, exc) == exc

\* the outermost except Exception of a tool
OuterHandler(tool, exc) ==
    create_error_response(ToolTable[tool].outer_key,
        Message(tool, "unexpected",
                IF tool \in DOMAIN TenantConfigTools
                THEN StrOfExc(exc) ELSE <<>>), PyNone)

\* the end of the tool body: its last statements return or raise
Finish(tool, final) ==
    IF IsRaise(final) THEN OuterHandler(tool, final) ELSE final

(***************************************************************************)
(* src/src/util/activity_log.py                                            *)
(***************************************************************************)
\* headers["ActivityID"] = activity_id
AuditHeaders(h) ==
    PyDict(IF "ActivityID" \in DOMAIN h.v THEN h.keys
           ELSE Append(h.keys, "ActivityID"),
           [ActivityID |-> "activity_id"] @@ h.v)

AuditUrl(a) == get_reltio_url(<<"activities">>, "api", a.tenant_id)

\* log_activity when get_reltio_headers or the gate raises: it returns
\* an envelope
log_activity_auth_failed(exc) ==
    create_error_response("AUTHENTICATION_ERROR",
                          <<"Failed to authenticate with Reltio API">>, PyNone)

\* log_activity when http_request raises
log_activity_failed(exc) ==
    Raise("Exception", <<"Failed to log activity: ">> \o StrOfExc(exc))

\* execute_and_log_activity: re-raises, and returns nothing otherwise
execute_and_log_activity(logged) ==
    IF IsRaise(logged) THEN logged ELSE PyNone

\* mutation: no try around the audit, the exception goes on
ToolAuditPropagates(exc) == exc

\* the try/except Exception a tool puts around execute_and_log_activity:
\* what leaves it
ToolAuditCatch(exc) == PyNone

\* the tool after its audit block
AfterAudit(tool, logged, final) ==
    LET raised == execute_and_log_activity(logged)
        left == IF IsRaise(raised) THEN ToolAuditCatch(raised) ELSE PyNone
    IN  IF IsRaise(left) THEN OuterHandler(tool, left) ELSE Finish(tool, final)

(***************************************************************************)
(* get_merge_activities: the filter of its url (activity.py 99-136)        *)
(***************************************************************************)
HexDigits ==
    <<"0", "1", "2", "3", "4", "5", "6", "7", "8", "9",
      "A", "B", "C", "D", "E", "F">>

\* "%XX" for one byte
PercentByte(b) == "%" \o HexDigits[(b \div 16) + 1] \o HexDigits[(b % 16) + 1]

\* the characters urllib.parse.quote never encodes, and its default safe="/"
QuoteSafe ==
    {"A", "B", "C", "D", "E", "F", "G", "H", "I", "J", "K", "L", "M",
     "N", "O", "P", "Q", "R", "S", "T", "U", "V", "W", "X", "Y", "Z",
     "a", "b", "c", "d", "e", "f", "g", "h", "i", "j", "k", "l", "m",
     "n", "o", "p", "q", "r", "s", "t", "u", "v", "w", "x", "y", "z",
     "0", "1", "2", "3", "4", "5", "6", "7", "8", "9",
     "_", ".", "-", "~", "/"}

\* quote of one character: itself when safe, else the bytes of its UTF-8
\* encoding (one below U+0080, two up to U+00FF), each as "%XX"
QuoteChar(c) ==
    IF c \in QuoteSafe THEN c
    ELSE IF ord(c) < 128 THEN PercentByte(ord(c))
    ELSE PercentByte(192 + (ord(c) \div 64)) \o PercentByte(128 + (ord(c) % 64))

\* urllib.parse.quote(s): the pieces it joins, one for each character of s
quote(s) == [i \in 1..Len(s) |-> QuoteChar(s[i])]

DefaultEventTypes ==
    PyList(<<PyStr(
              <<"E", "N", "T", "I", "T", "I", "E", "S", "_", "M", "E", "R",
                "G", "E", "D", "_", "M", "A", "N", "U", "A", "L", "L", "Y">>),
             PyStr(
              <<"E", "N", "T", "I", "T", "I", "E", "S", "_", "M", "E", "R",
                "G", "E", "D">>),
             PyStr(
              <<"E", "N", "T", "I", "T", "I", "E", "S", "_", "M", "E", "R",
                "G", "E", "D", "_", "O", "N", "_", "T", "H", "E", "_", "F",
                "L", "Y">>)>>)

\* request.event_types after the default (activity.py 99-100)
EventTypes(req) ==
    IF req.event_types.t = "none" THEN DefaultEventTypes ELSE req.event_types

GtTimestampHead ==
    <<"g", "t", "(", "t", "i", "m", "e", "s", "t", "a", "m", "p", ",">>
LtTimestampHead ==
    <<"l", "t", "(", "t", "i", "m", "e", "s", "t", "a", "m", "p", ",">>
EqualsDataTypeHead ==
    <<"e", "q", "u", "a", "l", "s", "(", "i", "t", "e", "m", "s", ".", "d",
      "a", "t", "a", ".", "t", "y", "p", "e", ",", "'">>
EqualsObjectTypeHead ==
    <<"e", "q", "u", "a", "l", "s", "(", "i", "t", "e", "m", "s", ".", "o",
      "b", "j", "e", "c", "t", "T", "y", "p", "e", ",", "'", "c", "o", "n",
      "f", "i", "g", "u", "r", "a", "t", "i", "o", "n", "/", "e", "n", "t",
      "i", "t", "y", "T", "y", "p", "e", "s", "/">>
EqualsUserHead ==
    <<"e", "q", "u", "a", "l", "s", "(", "u", "s", "e", "r", ",", "'">>
OrText == <<" ", "O", "R", " ">>
AndUpperText == <<" ", "A", "N", "D", " ">>

RECURSIVE JoinWith(_, _)
\* sep.join(parts)
JoinWith(parts, sep) ==
    IF Len(parts) = 0 THEN <<>>
    ELSE IF Len(parts) = 1 THEN parts[1]
    ELSE parts[1] \o sep \o JoinWith(Tail(parts), sep)

\* event_type_filters (activity.py 110-112)
EventTypeFilters(req) ==
    [i \in 1..Len(EventTypes(req).v) |->
        EqualsDataTypeHead \o EventTypes(req).v[i].v \o TypeClauseTail]

\* filter_parts (activity.py 103-127)
FilterParts(req) ==
    <<GtTimestampHead \o NatToChars(req.timestamp_gt) \o <<")">> >>
        \o (IF req.timestamp_lt.t = "none" THEN <<>>
            ELSE <<LtTimestampHead \o NatToChars(req.timestamp_lt.v)
                       \o <<")">> >>)
        \o (IF Len(EventTypeFilters(req)) = 0 THEN <<>>
            ELSE IF Len(EventTypeFilters(req)) = 1
            THEN <<EventTypeFilters(req)[1]>>
            ELSE << <<"(">> \o JoinWith(EventTypeFilters(req), OrText)
                        \o <<")">> >>)
        \o (IF req.entity_type.t = "none" THEN <<>>
            ELSE <<EqualsObjectTypeHead \o req.entity_type.v
                       \o TypeClauseTail>>)
        \o (IF req.user.t = "none" THEN <<>>
            ELSE <<EqualsUserHead \o req.user.v \o TypeClauseTail>>)

\* filter_str (activity.py 130)
filter_str(req) == JoinWith(FilterParts(req), AndUpperText)

\* the path of the url (activity.py 133-136)
ActivitiesPath(req) ==
    <<"a", "c", "t", "i", "v", "i", "t", "i", "e", "s", "?", "f", "i", "l",
      "t", "e", "r", "=">>
        \o quote(filter_str(req))
        \o <<"&", "o", "f", "f", "s", "e", "t", "=">> \o NatToChars(req.offset)
        \o <<"&", "m", "a", "x", "=">> \o NatToChars(req.max_results)

(***************************************************************************)
(* The primary request of each tool                                        *)
(***************************************************************************)
PrimaryUrl(tool, a, req) ==
    CASE tool = "get_entity_details" ->
            get_reltio_url(EntitiesPrefix \o req.entity_id, "api", req.tenant_id)
      [] tool = "update_entity_attributes" ->
            get_reltio_url(EntitiesPrefix \o req.entity_id \o <<"/_update">>,
                           "api", req.tenant_id)
      [] tool = "get_entity_matches" ->
            get_reltio_url(EntitiesPrefix \o req.entity_id
                               \o <<"/_transitiveMatches">>,
                           "api", req.tenant_id)
      [] tool = "get_entity_match_history" ->
            get_reltio_url(EntitiesPrefix \o req.entity_id
                               \o <<"/_crosswalkTree">>,
                           "api", req.tenant_id)
      [] tool = "merge_entities" ->
            get_reltio_url(EntitiesPrefix \o <<"_same">>, "api", req.tenant_id)
      [] tool = "reject_entity_match" ->
            get_reltio_url(EntitiesPrefix \o req.source_id \o <<"/_notMatch">>,
                           "api", req.tenant_id)
      [] tool = "export_merge_tree" ->
            get_reltio_export_job_url(EntitiesPrefix \o <<"_crosswalksTree">>,
                                      a.tenant_id)
      [] tool = "unmerge_entity_by_contributor" ->
            get_reltio_url(EntitiesPrefix \o req.origin_entity_id
                               \o <<"/_unmerge">>,
                           "api", req.tenant_id)
      [] tool = "unmerge_entity_tree_by_contributor" ->
            get_reltio_url(EntitiesPrefix \o req.origin_entity_id
                               \o <<"/_treeUnmerge">>,
                           "api", req.tenant_id)
      [] tool = "get_relation_details" ->
            get_reltio_url(<<"relations/">> \o req.relation_id,
                           "api", req.tenant_id)
      [] tool \in {"search_entities", "find_matches_by_match_score",
                   "find_matches_by_confidence"} ->
            get_reltio_url(EntitiesPrefix \o <<"_search">>, "api", req.tenant_id)
      [] tool = "get_total_matches" ->
            get_reltio_url(EntitiesPrefix \o <<"_total">>, "api", req.tenant_id)
      [] tool = "get_total_matches_by_entity_type" ->
            get_reltio_url(EntitiesPrefix \o <<"_facets">>, "api", req.tenant_id)
      [] tool = "get_merge_activities" ->
            get_reltio_url(ActivitiesPath(req), "api", req.tenant_id)
      [] tool = "get_tenant_permissions_metadata" ->
            get_reltio_url(<<>>, "permissions", a.tenant_id)
      [] OTHER ->
            get_reltio_url(<<"configuration/_noInheritance">>, "api", a.tenant_id)

\* the source-entity fetch of get_entity_matches / get_entity_match_history
SourceUrl(req) ==
    get_reltio_url(EntitiesPrefix \o req.entity_id, "api", req.tenant_id)

PostTools ==
    {"update_entity_attributes", "merge_entities", "reject_entity_match",
     "export_merge_tree", "unmerge_entity_by_contributor",
     "unmerge_entity_tree_by_contributor", "search_entities",
     "find_matches_by_match_score", "find_matches_by_confidence",
     "get_total_matches", "get_total_matches_by_entity_type"}

Method(tool) == IF tool \in PostTools THEN "POST" ELSE "GET"

\* max_results as get_entity_matches bounds it (entity.py 233-238)
MatchesLimit(max_results) ==
    IF max_results < 1 THEN 1
    ELSE IF max_results > MAX_RESULTS_LIMIT THEN MAX_RESULTS_LIMIT
    ELSE max_results

\* the query parameters of the primary request, None for a tool that gives
\* none (entity.py 269-276, 590-592, 691-693, 752-754, 848-850,
\* match.py 366-370)
QueryParams(tool, a, req) ==
    CASE tool = "get_entity_matches" ->
            PyDict(<<"deep", "markMatchedValues", "sort", "order",
                     "activeness", "limit">>,
                   [deep |-> PyInt(1), markMatchedValues |-> PyStr("true"),
                    sort |-> PyStr("score"), order |-> PyStr("desc"),
                    activeness |-> PyStr("active"),
                    limit |-> PyInt(MatchesLimit(a.max_results))])
      [] tool = "reject_entity_match" ->
            PyDict(<<"uri">>, [uri |-> PyStr(EntitiesPrefix \o req.target_id)])
      [] tool = "export_merge_tree" ->
            PyDict(<<"email">>, [email |-> PyStr(a.email_id)])
      [] tool \in {"unmerge_entity_by_contributor",
                   "unmerge_entity_tree_by_contributor"} ->
            PyDict(<<"contributorURI">>,
                   [contributorURI |->
                       PyStr(EntitiesPrefix \o req.contributor_entity_id)])
      [] tool = "get_total_matches_by_entity_type" ->
            PyDict(<<"activeness", "filter", "options">>,
                   [activeness |-> PyStr("active"),
                    filter |-> PyStr(TotalMatchesFilter(req)),
                    options |-> PyStr("searchByOv,ovOnly")])
      [] OTHER -> PyNone

(***************************************************************************)
(* src/src/tools/system.py                                                 *)
(***************************************************************************)
\* RELTIO_SERVER_NAME of src/src/env.py, when the environment sets none
RELTIO_SERVER_NAME == "reltio-mcp-server"

\* an item of "tools"
ToolInfo(name, description, parameters) ==
    PyDict(<<"name", "description", "parameters">>,
           [name |-> PyStr(name), description |-> PyStr(description),
            parameters |->
                PyList([i \in 1..Len(parameters) |-> PyStr(parameters[i])])])

CapabilityTools ==
    <<ToolInfo("search_entities_tool",
               "Search for entities with advanced filtering",
               <<"filter", "entity_type", "tenant_id", "max_results", "sort",
                 "order", "select", "options", "activeness", "offset">>),
      ToolInfo("get_entity_tool",
               "Get detailed information about a Reltio entity by ID",
               <<"entity_id", "tenant_id">>),
      ToolInfo("update_entity_attributes_tool",
               "Update specific attributes of an entity in Reltio.",
               <<"entity_id", "updates", "tenant_id">>),
      ToolInfo("get_entity_matches_tool",
               "Find potential matches for a specific entity",
               <<"entity_id", "tenant_id", "max_results">>),
      ToolInfo("get_entity_match_history_tool",
               "Find the match history for a specific entity",
               <<"entity_id", "tenant_id">>),
      ToolInfo("get_relation_tool",
               "Get detailed information about a Reltio relation by ID",
               <<"relation_id", "tenant_id">>),
      ToolInfo("find_entities_by_match_score_tool",
               "Find all potential matches by match score range",
               <<"start_match_score", "end_match_score", "entity_type",
                 "tenant_id", "max_results", "offset">>),
      ToolInfo("find_entities_by_confidence_tool",
               "Find all potential matches by confidence level",
               <<"confidence_level", "entity_type", "tenant_id", "max_results",
                 "offset">>),
      ToolInfo("get_total_matches_tool",
               "Get the total count of potential matches in the tenant",
               <<"min_matches", "tenant_id">>),
      ToolInfo("get_total_matches_by_entity_type_tool",
               "Get the facet counts of potential matches by entity type",
               <<"min_matches", "tenant_id">>),
      ToolInfo("merge_entities_tool",
               "Merge multiple entities in Reltio",
               <<"entity_ids", "tenant_id">>),
      ToolInfo("reject_entity_match_tool",
               "Mark an entity as not a match (reject the potential duplicate)",
               <<"source_id", "target_id", "tenant_id">>),
      ToolInfo("unmerge_entity_by_contributor_tool",
               "Unmerge a contributor entity from a merged entity, keeping profiles merged beneath it intact",
               <<"origin_entity_id", "contributor_entity_id", "tenant_id">>),
      ToolInfo("unmerge_entity_tree_by_contributor_tool",
               "Unmerge a contributor entity and all profiles merged beneath it from a merged entity",
               <<"origin_entity_id", "contributor_entity_id", "tenant_id">>),
      ToolInfo("export_merge_tree_tool",
               "Export the merge tree for all entities in a specific tenant",
               <<"email_id", "tenant_id">>),
      ToolInfo("get_business_configuration_tool",
               "Get the business configuration for a specific tenant",
               <<"tenant_id">>),
      ToolInfo("get_tenant_permissions_metadata_tool",
               "Get the permissions and security metadata for a specific tenant",
               <<"tenant_id">>),
      ToolInfo("get_merge_activities_tool",
               "Retrieve activity events related to entity merges with flexible filtering options",
               <<"timestamp_gt", "event_types", "timestamp_lt", "entity_type",
                 "user", "tenant_id", "offset", "max_results">>),
      ToolInfo("get_tenant_metadata_tool",
               "Get the tenant metadata details from the business configuration for a specific tenant",
               <<"tenant_id">>),
      ToolInfo("get_data_model_definition_tool",
               "Get complete details about the data model definition from the business configuration for a specific tenant",
               <<"object_type", "tenant_id">>),
      ToolInfo("get_entity_type_definition_tool",
               "Get the entity type definition for a specified entity type from the business configuration of a specific tenant",
               <<"entity_type", "tenant_id">>),
      ToolInfo("get_change_request_type_definition_tool",
               "Get the change request type definition for a specified change request type from the business configuration of a specific tenant",
               <<"change_request_type", "tenant_id">>),
      ToolInfo("get_relation_type_definition_tool",
               "Get the relation type definition for a specified relation type from the business configuration of a specific tenant",
               <<"relation_type", "tenant_id">>),
      ToolInfo("get_interaction_type_definition_tool",
               "Get the interaction type definition for a specified interaction type from the business configuration of a specific tenant",
               <<"interaction_type", "tenant_id">>),
      ToolInfo("get_graph_type_definition_tool",
               "Get the graph type definition for a specified graph type from the business configuration of a specific tenant",
               <<"graph_type", "tenant_id">>),
      ToolInfo("get_grouping_type_definition_tool",
               "Get the grouping type definition for a specified grouping type from the business configuration of a specific tenant",
               <<"grouping_type", "tenant_id">>),
      ToolInfo("capabilities_tool",
               "Display this help information",
               <<>>)>>

CapabilityPrompts ==
    <<PyDict(<<"name", "description">>,
             [name |-> PyStr("duplicate_review"),
              description |->
                  PyStr("Helps review potential duplicates for an entity")])>>

ExampleUsage ==
    <<PyStr("search_entities_tool(filter=\"containsWordStartingWith(attributes,'John')\")"),
      PyStr("search_entities_tool(filter=\"equals(type,'configuration/entityTypes/Individual')\")"),
      PyStr("get_entity_tool(entity_id='118C6Ujm')"),
      PyStr("update_entity_attributes_tool(entity_id='118C6Ujm', updates=[{'type': 'UPDATE_ATTRIBUTE', 'uri': 'entities/118C6Ujm/attributes/FirstName/3Z3Tq6BBE', 'newValue': [{'value': 'John'}]}])"),
      PyStr("get_entity_matches_tool(entity_id='118C6Ujm')"),
      PyStr("get_entity_match_history_tool(entity_id='118C6Ujm')"),
      PyStr("get_relation_tool(relation_id='relation_id')"),
      PyStr("find_matches_by_match_score_tool(start_match_score=50, end_match_score=100, entity_type='Individual', tenant_id='tenant_id', max_results=10)"),
      PyStr("find_matches_by_confidence_tool(confidence_level='High confidence', entity_type='Individual', tenant_id='tenant_id', max_results=10)"),
      PyStr("get_total_matches_tool(min_matches=0, tenant_id='tenant_id')"),
      PyStr("get_total_matches_by_entity_type_tool(min_matches=0, tenant_id='tenant_id')"),
      PyStr("merge_entities_tool(entity_ids=['entities/123abc', 'entities/456def'], tenant_id='tenant_id')"),
      PyStr("reject_entity_match_tool(source_id='123abc', target_id='456def', tenant_id='tenant_id')"),
      PyStr("unmerge_entity_by_contributor_tool(origin_entity_id='123abc', contributor_entity_id='456def', tenant_id='tenant_id')"),
      PyStr("unmerge_entity_tree_by_contributor_tool(origin_entity_id='123abc', contributor_entity_id='456def', tenant_id='tenant_id')"),
      PyStr("export_merge_tree_tool(email_id='dummy.svr@email.com', tenant_id='tenant_id')"),
      PyStr("get_business_configuration_tool(tenant_id='tenant_id')"),
      PyStr("get_tenant_permissions_metadata_tool(tenant_id='tenant_id')"),
      PyStr("get_merge_activities_tool(timestamp_gt=1744191663000, event_types=['ENTITIES_MERGED_MANUALLY'], entity_type='Individual')"),
      PyStr("get_tenant_metadata_tool(tenant_id='tenant_id')"),
      PyStr("get_data_model_definition_tool(object_type=['entityTypes'], tenant_id='tenant_id')"),
      PyStr("get_entity_type_definition_tool(entity_type='configuration/entityTypes/Organization', tenant_id='tenant_id')"),
      PyStr("get_change_request_type_definition_tool(change_request_type='configuration/changeRequestTypes/default', tenant_id='tenant_id')"),
      PyStr("get_relation_type_definition_tool(relation_type='configuration/relationTypes/OrganizationIndividual', tenant_id='tenant_id')"),
      PyStr("get_interaction_type_definition_tool(interaction_type='configuration/interactionTypes/PurchaseOrder', tenant_id='tenant_id')"),
      PyStr("get_graph_type_definition_tool(graph_type='configuration/graphTypes/Hierarchy', tenant_id='tenant_id')"),
      PyStr("get_grouping_type_definition_tool(grouping_type='configuration/groupingTypes/Household', tenant_id='tenant_id')")>>

\* list_capabilities (system.py 9-205): no upstream call
list_capabilities ==
    PyDict(<<"server_name", "tools", "prompts", "example_usage">>,
           [server_name |-> PyStr(RELTIO_SERVER_NAME),
            tools |-> PyList(CapabilityTools),
            prompts |-> PyList(CapabilityPrompts),
            example_usage |-> PyList(ExampleUsage)])

(***************************************************************************)
(* The arguments the invocation layer passes                               *)
(***************************************************************************)
GoodId == <<"a", "b", "c", "d", "e">>
PrefixedId == EntitiesPrefix \o GoodId
ShortId == <<"a", "b">>
ShortPrefixedId == EntitiesPrefix \o ShortId
IdInputs == {GoodId, PrefixedId, ShortId, ShortPrefixedId}
GoodTenant == <<"t", "e", "n", "a", "n", "t", "1">>
BadTenant == <<"t", "!">>
TenantInputs == {GoodTenant, BadTenant}

RECURSIVE SeqsUpTo(_, _)
SeqsUpTo(S, n) ==
    IF n = 0 THEN {<<>>}
    ELSE SeqsUpTo(S, n - 1)
            \cup {Append(q, x) : q \in {r \in SeqsUpTo(S, n - 1) : Len(r) = n - 1},
                                 x \in S}

SecuritySelect ==
    <<"a", "t", "t", "r", "i", "b", "u", "t", "e", "s", ".", "S", "e",
      "c", "u", "r", "i", "t", "y">>
SelectInputs == {<<>>, FieldNames.label, SecuritySelect}

\* filter_field: none, and an allowlist of two fields
FilterInputs ==
    {PyNone,
     PyDict(<<"label", "attributes">>,
            [label |-> PyList(<<>>),
             attributes |-> PyList(<<PyStr("Zip")>>)])}

\* updates: no operation, one operation, a list of something else, no list
UpdatesInputs ==
    {PyList(<<>>), PyList(<<PyDict(<<"type">>,
                                   [type |-> PyStr("UPDATE_ATTRIBUTE")])>>),
     PyList(<<PyInt(1)>>), PyDict(<<>>, EmptyMap)}
\* an entity type one character longer than the schemas allow
EventTypeInputs ==
    {PyNone, PyList(<<PyStr(<<"E", "N", "T", "I", "T", "I", "E", "S", "_",
                              "M", "E", "R", "G", "E", "D">>)>>)}
UserInputs == {PyNone, PyStr(<<"a", "@", "b", " ", "c">>)}
LongEntityType == [i \in 1..(MAX_ENTITY_TYPE_LENGTH + 1) |-> "x"]
SortInputs == {<<>>, <<"l", "a", "b", "e", "l">>}
OvOnly == <<"o", "v", "O", "n", "l", "y">>
Active == <<"a", "c", "t", "i", "v", "e">>

ArgsFor(tool) ==
    CASE tool = "get_entity_details" ->
            [entity_id : IdInputs, filter_field : FilterInputs,
             tenant_id : TenantInputs]
      [] tool = "get_entity_matches" ->
            [entity_id : IdInputs, tenant_id : TenantInputs,
             max_results : {25}]
              \cup [entity_id : {GoodId}, tenant_id : {GoodTenant},
                    max_results : {0, 200}]
      [] tool = "get_entity_match_history" ->
            [entity_id : IdInputs, tenant_id : TenantInputs]
      [] tool = "export_merge_tree" ->
            [email_id : {<<"a", "@", "b", ".", "c">>}, tenant_id : TenantInputs]
      [] tool = "list_capabilities" -> {EmptyMap}
      [] tool = "update_entity_attributes" ->
            [entity_id : {GoodId, ShortId}, updates : UpdatesInputs,
             tenant_id : TenantInputs]
      [] tool = "merge_entities" ->
            [entity_ids : SeqsUpTo({GoodId}, MaxIds), tenant_id : TenantInputs]
      [] tool = "reject_entity_match" ->
            [source_id : {GoodId, ShortId}, target_id : {PrefixedId},
             tenant_id : TenantInputs]
      [] tool \in {"unmerge_entity_by_contributor",
                   "unmerge_entity_tree_by_contributor"} ->
            [origin_entity_id : {GoodId, ShortId},
             contributor_entity_id : {PrefixedId}, tenant_id : TenantInputs]
      [] tool = "get_relation_details" ->
            [relation_id : {GoodId, ShortId}, tenant_id : TenantInputs]
      [] tool = "search_entities" ->
            [filter : {<<>>, <<"(", "a">>},
             tenant_id : TenantInputs,
             max_results : {10, 50},
             order : {<<"a", "s", "c">>, <<"u", "p">>},
             offset : {0, 9960, 9995},
             entity_type : {<<>>}, select : {<<>>},
             sort : {<<>>}, options : {OvOnly}, activeness : {Active},
             trace : {FALSE}]
              \cup [filter : {<<>>, <<"f">>, <<")", "(">>},
                    tenant_id : {GoodTenant},
                    max_results : {10},
                    order : {<<"a", "s", "c">>},
                    offset : {0},
                    entity_type : {<<>>, <<"T">>, LongEntityType},
                    select : SelectInputs,
                    sort : SortInputs, options : {OvOnly},
                    activeness : {Active}, trace : BOOLEAN]
      [] tool = "find_matches_by_match_score" ->
            [start_match_score : {10, 90}, end_match_score : {50},
             entity_type : {DefaultEntityType, <<" ">>, LongEntityType},
             tenant_id : TenantInputs, max_results : {10}, offset : {0, 9995}]
      [] tool = "find_matches_by_confidence" ->
            [confidence_level : {DefaultConfidence, <<>>},
             entity_type : {DefaultEntityType, LongEntityType},
             tenant_id : TenantInputs, max_results : {0, 10}, offset : {0}]
      [] tool \in {"get_total_matches", "get_total_matches_by_entity_type"} ->
            [min_matches : {0 - 1, 0}, tenant_id : TenantInputs]
      [] tool = "get_merge_activities" ->
            [timestamp_gt : {0, 5},
             event_types : EventTypeInputs,
             timestamp_lt : {NoTimestamp, PyInt(3), PyInt(0 - 1)},
             user : UserInputs,
             entity_type : {PyNone, PyStr(DefaultEntityType),
                            PyStr(LongEntityType)},
             tenant_id : TenantInputs, offset : {0, 9995}, max_results : {10}]
              \cup [timestamp_gt : {5},
                    event_types : {PyNone},
                    timestamp_lt : {PyStr(<<"9">>), PyStr(<<"0", "-", "9">>),
                                    PyStr(<<"a">>), PyBool(TRUE),
                                    PyList(<<>>)},
                    user : {PyNone},
                    entity_type : {PyNone, PyInt(5)},
                    tenant_id : {GoodTenant}, offset : {0}, max_results : {10}]
      [] tool = "get_data_model_definition" ->
            [object_type : {<<>>, <<"graphTypes", "groupingTypes">>,
                            <<"entityTypes">>, <<"other">>},
             tenant_id : TenantInputs]
      [] tool \in DOMAIN Definitions ->
            {[k \in {Definitions[tool].arg, "tenant_id"} |->
                 IF k = "tenant_id" THEN tenant ELSE wanted] :
                 tenant \in TenantInputs, wanted \in {IndividualUri, "other"}}
      [] OTHER -> [tenant_id : TenantInputs]

(***************************************************************************)
(* The state of one invocation                                             *)
(***************************************************************************)
VARIABLES
    pc,         \* "idle", "await_token", "await_http", "done"
    tool,       \* the tool function invoked
    args,       \* its arguments
    request,    \* the validated request
    ctx,        \* the call in flight: which call, whether inside the 401
                \* branch of http_request, the retry_on_401 flag and the
                \* headers of the attempt in flight
    headers,    \* the tool's own `headers` variable
    trace,      \* the requests sent so far, with the class of their answer
    primary,    \* the outcome of the primary http_request call
    result,     \* the value returned to the invocation layer
    audited,    \* whether execute_and_log_activity has been called
    round,      \* 1, or 2 when the invocation is run a second time
    ups,        \* round 1's answers to the non-audit requests
    ref,        \* round 1's result
    unit,       \* a request schema applied to an identifier on its own;
                \* or the process that serves several invocations: its
                \* host, its heap of header dicts and its calls
    gate        \* "real", or "raises" when the tool module's
                \* validate_connection_security is replaced by a stub
                \* that raises SecurityError, as the unit tests do

\* the outcome of a schema for one identifier, and the schema not yet applied
NotValidated == [ok |-> FALSE, id |-> <<>>]
NoUnit ==
    [schema |-> "none", x |-> <<>>, done |-> {}, from |-> "none",
     bare |-> NotValidated, prefixed |-> NotValidated, again |-> NotValidated]

vars == <<pc, tool, args, request, ctx, headers, trace, primary, result,
          audited, round, ups, ref, unit, gate>>

NoCtx == [call |-> "none", refetching |-> FALSE, retry_on_401 |-> TRUE,
          headers |-> PyNone]
NoOutcome == [out |-> "none", val |-> PyNone]

Event(ev, c, tok, flag) ==
    [ev |-> ev, call |-> c, tok |-> tok, flag |-> flag, ans |-> "pending"]
Answered(tr, tag) == [tr EXCEPT ![Len(tr)].ans = tag]

TokenTag(r) == IF r.kind = "token" THEN "ok" ELSE "failed"
HttpTag(r) ==
    CASE r.kind = "json" -> "ok"
      [] r.kind = "http" /\ r.status = 401
            /\ Contains(r.text, InvalidTokenText) -> "401_invalid_token"
      [] r.kind = "http" /\ r.status = 401 -> "401"
      [] OTHER -> "error"

Fetches(tr) == Cardinality({i \in 1..Len(tr) : tr[i].ev = "token"})
Attempts(tr, c) ==
    Cardinality({i \in 1..Len(tr) : tr[i].ev = "http" /\ tr[i].call = c})

\* the invocation as a record, and the record after each kind of step
Fresh ==
    [pc |-> "idle", request |-> PyNone, ctx |-> NoCtx, headers |-> PyNone,
     trace |-> <<>>, primary |-> NoOutcome, result |-> PyNone,
     audited |-> FALSE]
Cur ==
    [pc |-> pc, request |-> request, ctx |-> ctx, headers |-> headers,
     trace |-> trace, primary |-> primary, result |-> result,
     audited |-> audited]

Returns(s, val) == [s EXCEPT !.pc = "done", !.result = val, !.ctx = NoCtx]

\* get_access_token posts to the auth server
SendToken(s, c, refetching) ==
    [s EXCEPT !.pc = "await_token",
              !.ctx = [@ EXCEPT !.call = c, !.refetching = refetching],
              !.trace = Append(@, Event("token", c, 0, FALSE))]

\* requests.request(...)
SendHttp(s, c, h, flag) ==
    [s EXCEPT !.pc = "await_http",
              !.ctx = [call |-> c, refetching |-> FALSE,
                       retry_on_401 |-> flag, headers |-> h],
              !.trace = Append(@, Event("http", c, h.v.Authorization, flag))]

Gated(s, c, g) ==
    [s EXCEPT !.trace =
        Append(@, [Event("gate", c, 0, FALSE) EXCEPT
                      !.ans = IF IsRaise(g) THEN "failed" ELSE "ok"])]

(***************************************************************************)
(* The tool body, from one upstream answer to the next request or return   *)
(***************************************************************************)
\* the tool after its data calls: audit block, then the last statements
AfterData(s, t, a, steps) ==
    IF steps.audit
    THEN SendToken([s EXCEPT !.audited = TRUE], "audit", FALSE)
    ELSE Returns(s, Finish(t, steps.final))

\* log_activity has returned or raised `logged`
AuditDone(s, t, a, logged) ==
    Returns(s, AfterAudit(t, logged,
                          ToolSteps(t, a, s.request, s.primary.val).final))

\* mutation: the audit block also runs when the primary call has raised
CallRaisedThenAudit(s, t, a, exc) ==
    CASE s.ctx.call = "primary" ->
            SendToken([s EXCEPT !.primary = [out |-> "raise", val |-> exc],
                                !.audited = TRUE], "audit", FALSE)
      [] s.ctx.call = "secondary" ->
            Returns(s, ToolPartial(t, s.primary.val, StrOfExc(exc)))
      [] s.ctx.call = "audit" ->
            AuditDone(s, t, a, log_activity_failed(exc))

\* an exception leaves the http_request call in flight
CallRaised(s, t, a, exc) ==
    CASE s.ctx.call = "primary" ->
            Returns([s EXCEPT !.primary = [out |-> "raise", val |-> exc]],
                    PrimaryHandler(t, s.request, exc))
      [] s.ctx.call = "secondary" ->
            Returns(s, ToolPartial(t, s.primary.val, StrOfExc(exc)))
      [] s.ctx.call = "audit" ->
            AuditDone(s, t, a, log_activity_failed(exc))

\* the http_request call in flight returns val
CallReturned(s, t, a, val) ==
    CASE s.ctx.call = "primary" ->
            LET s1 == [s EXCEPT !.primary = [out |-> "return", val |-> val]]
                steps == ToolSteps(t, a, s.request, val)
            IN  IF steps.secondary
                THEN SendHttp(s1, "secondary", s.headers, TRUE)
                ELSE AfterData(s1, t, a, steps)
      [] s.ctx.call = "secondary" ->
            AfterData(s, t, a, ToolSteps(t, a, s.request, s.primary.val))
      [] s.ctx.call = "audit" -> AuditDone(s, t, a, val)

\* validate_connection_security as the tool module sees it: the function of
\* src/src/util/api.py, or the stub that raises
\* SecurityError("Security validation failed"), whose str is the safe message
\* of exceptions.py 37-44
SecurityGate(url, h) ==
    IF gate = "raises"
    THEN Raise("SecurityError", <<"403: Security requirements not met">>)
    ELSE validate_connection_security(url, h)

\* the tool is called
Start(t, a) ==
    IF t = "list_capabilities" THEN Returns(Fresh, list_capabilities)
    ELSE LET v == Validate(t, a)
         IN  IF ~v.ok THEN Returns(Fresh, ValidationHandler(t, v.err))
             ELSE SendToken([Fresh EXCEPT !.request = v.request],
                            "primary", FALSE)

\* the auth server answers r
OnToken(s, t, a, r) ==
    LET h == get_reltio_headers(r, Fetches(s.trace))
        s1 == [s EXCEPT !.trace = Answered(@, TokenTag(r))]
    IN  IF s.ctx.refetching
        THEN \* inside http_request: headers = get_reltio_headers()
             IF IsRaise(h) THEN CallRaised(s1, t, a, h)
             ELSE SendHttp(s1, s.ctx.call, h, RetryFlagOfRetry)
        ELSE IF s.ctx.call = "primary"
        THEN IF IsRaise(h) THEN Returns(s1, AuthHandler(t, h))
             ELSE LET g == SecurityGate(PrimaryUrl(t, a, s.request), h)
                      s2 == [Gated(s1, "primary", g) EXCEPT !.headers = h]
                  IN  IF IsRaise(g) THEN Returns(s2, GateHandler(t, g))
                      ELSE SendHttp(s2, "primary", h, TRUE)
        ELSE \* log_activity
             IF IsRaise(h) THEN AuditDone(s1, t, a, log_activity_auth_failed(h))
             ELSE LET ah == AuditHeaders(h)
                      g == validate_connection_security(AuditUrl(a), ah)
                      s2 == Gated(s1, "audit", g)
                  IN  IF IsRaise(g)
                      THEN AuditDone(s2, t, a, log_activity_auth_failed(g))
                      ELSE SendHttp(s2, "audit", ah, TRUE)

\* the API answers r
OnHttp(s, t, a, r) ==
    LET o == http_request(r, s.ctx.headers, s.ctx.retry_on_401)
        s1 == [s EXCEPT !.trace = Answered(@, HttpTag(r))]
    IN  CASE o.out = "refetch" -> SendToken(s1, s.ctx.call, TRUE)
          [] o.out = "raise" -> CallRaised(s1, t, a, o.val)
          [] o.out = "return" -> CallReturned(s1, t, a, o.val)

Becomes(s) ==
    /\ pc' = s.pc
    /\ request' = s.request
    /\ ctx' = s.ctx
    /\ headers' = s.headers
    /\ trace' = s.trace
    /\ primary' = s.primary
    /\ result' = s.result
    /\ audited' = s.audited

(***************************************************************************)
(* The state machine                                                       *)
(***************************************************************************)
\* the server after construction: no invocation in progress
Constructed ==
    /\ tool = "none"
    /\ args = [tenant_id |-> GoodTenant]
    /\ round = 1
    /\ ups = <<>>
    /\ ref = PyNone
    /\ gate = "real"
    /\ pc = Fresh.pc
    /\ request = Fresh.request
    /\ ctx = Fresh.ctx
    /\ headers = Fresh.headers
    /\ trace = Fresh.trace
    /\ primary = Fresh.primary
    /\ result = Fresh.result
    /\ audited = Fresh.audited

Init == Constructed /\ unit = NoUnit

\* the invocation layer calls a tool function
Invoke(t, a) ==
    /\ pc = "idle"
    /\ tool' = t
    /\ args' = a
    /\ Becomes(Start(t, a))
    /\ UNCHANGED <<round, ups, ref, unit, gate>>

\* the auth server answers the pending token request
TokenResponse(r) ==
    /\ pc = "await_token"
    /\ Becomes(OnToken(Cur, tool, args, r))
    /\ UNCHANGED <<tool, args, round, ups, ref, unit, gate>>

\* the API answers the pending request
HttpResponse(r) ==
    /\ pc = "await_http"
    /\ Attempts(trace, ctx.call) <= MaxAttempts
    /\ http_request(r, ctx.headers, ctx.retry_on_401).out = "refetch"
          => Attempts(trace, ctx.call) < MaxAttempts
    /\ Becomes(OnHttp(Cur, tool, args, r))
    /\ UNCHANGED <<tool, args, round, ups, ref, unit, gate>>

\* the invocation layer takes the result; the server is ready again
Return ==
    /\ pc = "done"
    /\ tool' = "none"
    /\ args' = [tenant_id |-> GoodTenant]
    /\ Becomes(Fresh)
    /\ UNCHANGED <<round, ups, ref, unit, gate>>

Next ==
    \/ \E t \in Tools : \E a \in ArgsFor(t) : Invoke(t, a)
    \/ \E r \in TokenResponses : TokenResponse(r)
    \/ \E r \in Responses : HttpResponse(r)
    \/ Return

Spec == Init /\ [][Next]_vars

(***************************************************************************)
(* The same invocation run twice: round 1 with an audit that succeeds,     *)
(* round 2 with the same answers to every non-audit request and any        *)
(* answer to the audit's requests.                                         *)
(***************************************************************************)
\* the position in ups of the answer to the pending non-audit request
Position ==
    Cardinality({i \in 1..Len(trace) :
                    /\ trace[i].call # "audit"
                    /\ trace[i].ev \in {"token", "http"}
                    /\ trace[i].ans # "pending"}) + 1

Scripted(r) ==
    IF ctx.call = "audit"
    THEN round = 1 => r.kind \in {"token", "json"}
    ELSE round = 2 => /\ r.kind = ups[Position].kind
                      /\ r = ups[Position]

Recorded(r) ==
    IF round = 1 /\ ctx.call # "audit" THEN Append(ups, r) ELSE ups

TokenResponseAudit(r) ==
    /\ pc = "await_token"
    /\ Scripted(r)
    /\ Becomes(OnToken(Cur, tool, args, r))
    /\ ups' = Recorded(r)
    /\ UNCHANGED <<tool, args, round, ref, unit, gate>>

HttpResponseAudit(r) ==
    /\ pc = "await_http"
    /\ Scripted(r)
    /\ http_request(r, ctx.headers, ctx.retry_on_401).out = "refetch"
          => Attempts(trace, ctx.call) < MaxAttempts
    /\ Becomes(OnHttp(Cur, tool, args, r))
    /\ ups' = Recorded(r)
    /\ UNCHANGED <<tool, args, round, ref, unit, gate>>

\* the invocation is made again with the same arguments
Replay ==
    /\ pc = "done"
    /\ round = 1
    /\ audited
    /\ round' = 2
    /\ ref' = result
    /\ Becomes(Start(tool, args))
    /\ UNCHANGED <<tool, args, ups, unit, gate>>

ReturnAudit ==
    /\ pc = "done"
    /\ round = 2 \/ ~audited
    /\ tool' = "none"
    /\ args' = [tenant_id |-> GoodTenant]
    /\ round' = 1
    /\ ups' = <<>>
    /\ ref' = PyNone
    /\ Becomes(Fresh)
    /\ UNCHANGED <<unit, gate>>

NextAudit ==
    \/ \E t \in Tools : \E a \in ArgsFor(t) : Invoke(t, a)
    \/ \E r \in TokenResponses : TokenResponseAudit(r)
    \/ \E r \in Responses : HttpResponseAudit(r)
    \/ Replay
    \/ ReturnAudit

SpecAudit == Init /\ [][NextAudit]_vars

(***************************************************************************)
(* The tools run as the unit tests run them: each invocation either with   *)
(* the real validate_connection_security or with the stub that raises.     *)
(***************************************************************************)
GateModes == {"real", "raises"}

InvokeStubbed(t, a, g) ==
    /\ pc = "idle"
    /\ tool' = t
    /\ args' = a
    /\ gate' = g
    /\ Becomes(Start(t, a))
    /\ UNCHANGED <<round, ups, ref, unit>>

NextStubbed ==
    \/ \E t \in Tools : \E a \in ArgsFor(t) : \E g \in GateModes :
            InvokeStubbed(t, a, g)
    \/ \E r \in TokenResponses : TokenResponse(r)
    \/ \E r \in Responses : HttpResponse(r)
    \/ Return

SpecStubbed == Init /\ [][NextStubbed]_vars

(***************************************************************************)
(* The identifier schemas on their own: an identifier x is validated bare, *)
(* with its URI prefix, and once more after normalization.                 *)
(***************************************************************************)
RelationsPrefix ==
    <<"r", "e", "l", "a", "t", "i", "o", "n", "s", "/">>
IdSchemas == {"EntityIdRequest", "RelationIdRequest"}
IdPrefix(schema) ==
    IF schema = "EntityIdRequest" THEN EntitiesPrefix ELSE RelationsPrefix
\* an identifier near the upper length limit of the pattern
LongId == [i \in 1..25 |-> "a"]
IdSamples == SeqsUpTo({"a", "/"}, MaxIdChars) \cup {LongId}

\* the schema applied to identifier y: accepted with the id it stores, or
\* rejected
ValidateId(schema, y) ==
    LET v == IF schema = "EntityIdRequest"
             THEN EntityIdRequest([entity_id |-> y, tenant_id |-> GoodTenant])
             ELSE RelationIdRequest([relation_id |-> y, tenant_id |-> GoodTenant])
    IN  IF ~v.ok THEN NotValidated
        ELSE [ok |-> TRUE,
              id |-> IF schema = "EntityIdRequest"
                     THEN v.request.entity_id ELSE v.request.relation_id]

machine == <<pc, tool, args, request, ctx, headers, trace, primary, result,
             audited, round, ups, ref, gate>>

InitIds ==
    /\ Constructed
    /\ unit \in {[NoUnit EXCEPT !.schema = sch, !.x = x] :
                    sch \in IdSchemas, x \in IdSamples}

ValidateBare ==
    /\ "bare" \notin unit.done
    /\ unit' = [unit EXCEPT !.bare = ValidateId(unit.schema, unit.x),
                            !.done = @ \cup {"bare"}]
    /\ UNCHANGED machine

ValidatePrefixed ==
    /\ "prefixed" \notin unit.done
    /\ unit' = [unit EXCEPT
                  !.prefixed = ValidateId(unit.schema,
                                          IdPrefix(unit.schema) \o unit.x),
                  !.done = @ \cup {"prefixed"}]
    /\ UNCHANGED machine

\* the id a validation has stored is given to the schema again
ValidateAgain(src) ==
    /\ src \in unit.done
    /\ "again" \notin unit.done
    /\ unit[src].ok
    /\ unit' = [unit EXCEPT !.again = ValidateId(unit.schema, unit[src].id),
                            !.from = src,
                            !.done = @ \cup {"again"}]
    /\ UNCHANGED machine

NextIds ==
    \/ ValidateBare
    \/ ValidatePrefixed
    \/ \E src \in {"bare", "prefixed"} : ValidateAgain(src)

SpecIds == InitIds /\ [][NextIds]_vars

(***************************************************************************)
(* The response normalizer and the field allowlist applied to entities    *)
(* src/src/tools/util.py, src/src/tools/entity.py 17-48, 120-125           *)
(***************************************************************************)
\* ---- upstream entities and allowlists ----
Absent == [t |-> "absent", v |-> 0]
\* the dict of the fields that are given
MkDict(keys, f) ==
    PyDict(SelectSeq(keys, LAMBDA k : f[k].t # "absent"),
           [k \in {j \in DOMAIN f : f[j].t # "absent"} |-> f[k]])
Val(x) == PyDict(<<"value">>, [value |-> x])

John == PyStr(<<"J", "o", "h", "n">>)
TextA == PyStr(<<"a">>)
TextB == PyStr(<<"b">>)
AttributeSamples ==
    {PyDict(<<>>, EmptyMap),
     PyDict(<<"FirstName">>, [FirstName |-> PyList(<<Val(John)>>)]),
     PyDict(<<"Tags", "Empty">>,
            [Tags |-> PyList(<<Val(TextA), Val(TextB)>>),
             Empty |-> PyList(<<>>)]),
     PyDict(<<"Mixed", "NoValue", "NotList", "Null">>,
            [Mixed |-> PyList(<<PyDict(<<"value", "ov">>,
                                       [value |-> TextB, ov |-> PyBool(TRUE)]),
                                TextA, PyDict(<<"ov">>, [ov |-> PyBool(TRUE)]),
                                Val(TextA)>>),
             NoValue |-> PyList(<<PyDict(<<"ov">>, [ov |-> PyBool(TRUE)])>>),
             NotList |-> TextA,
             Null |-> PyNone]),
     PyDict(<<"Address">>,
            [Address |-> PyList(<<Val(PyDict(<<"Street", "Zip", "Lines">>,
                                             [Street |-> PyList(<<Val(John)>>),
                                              Zip |-> PyList(<<>>),
                                              Lines |-> PyList(<<Val(TextA), Val(TextB)>>)]))>>)])}

CrosswalkSamples ==
    {PyList(<<>>),
     PyList(<<PyDict(<<"uri", "type", "value", "createDate", "attributeURIs">>,
                     [uri |-> PyStr(<<"c", "r", "o", "s", "s", "w", "a", "l", "k", "s", "/", "a", "b", "c", "1", "2", "3">>),
                      type |-> PyStr(<<"c", "o", "n", "f", "i", "g", "u", "r", "a", "t", "i", "o", "n", "/", "s", "o", "u", "r", "c", "e", "s", "/", "C", "R", "M">>),
                      value |-> PyStr(<<"X", "1">>),
                      createDate |-> PyStr(<<"2", "0", "2", "4", "-", "0", "1", "-", "0", "1">>),
                      attributeURIs |-> PyList(<<>>)])>>),
     PyList(<<PyDict(<<"id", "type", "value", "createTime">>,
                     [id |-> PyStr(<<"r", "a", "w", "1">>), type |-> PyStr(<<"C", "R", "M">>),
                      value |-> PyStr(<<"X", "2">>), createTime |-> PyInt(7)]),
              TextA,
              PyDict(<<"uri", "id", "createdTime">>,
                     [uri |-> PyStr(<<"e", "n", "t", "i", "t", "i", "e", "s", "/", "e", "1", "/", "c", "r", "o", "s", "s", "w", "a", "l", "k", "s", "/", "c", "2">>),
                      id |-> PyStr(<<"r", "a", "w", "2">>),
                      createdTime |-> PyInt(9)])>>),
     PyList(<<PyDict(<<"uri", "id", "type", "value", "createDate",
                       "createTime">>,
                     [uri |-> PyStr(<<"a", "b", "c", "1", "2", "3">>), id |-> PyStr(<<"r", "a", "w", "3">>),
                      type |-> PyStr(<<"c", "o", "n", "f", "i", "g", "u", "r", "a", "t", "i", "o", "n", "/", "s", "o", "u", "r", "c", "e", "s", "/", "E", "R", "P">>),
                      value |-> PyStr(<<"X", "3">>), createDate |-> PyInt(5),
                      createTime |-> PyInt(7)])>>)}

LabelSamples == {Absent, John, PyStr(<<>>), PyNone}

EntitySamples ==
    {MkDict(<<"attributes", "crosswalks", "label">>,
            [attributes |-> a, crosswalks |-> c, label |-> l]) :
        a \in AttributeSamples \cup {Absent},
        c \in CrosswalkSamples \cup {Absent},
        l \in LabelSamples}

Names(s) == PyList([i \in 1..Len(s) |-> PyStr(s[i])])
AllowlistSamples ==
    {PyNone,
     PyDict(<<>>, EmptyMap),
     PyDict(<<"attributes">>, [attributes |-> Names(<<>>)]),
     PyDict(<<"attributes">>,
            [attributes |-> Names(<<"FirstName", "Tags", "Mixed", "Null">>)]),
     PyDict(<<"label", "crosswalks">>,
            [label |-> Names(<<>>), crosswalks |-> Names(<<>>)]),
     PyDict(<<"attributes", "label">>,
            [attributes |-> Names(<<"Zip">>), label |-> Names(<<>>)]),
     PyDict(<<"attributes", "crosswalks", "missing">>,
            [attributes |-> Names(<<>>), crosswalks |-> Names(<<>>),
             missing |-> Names(<<>>)])}

\* ---- the functions applied to one entity and one allowlist ----
NotApplied == [t |-> "none", v |-> 0]
InitReshape ==
    /\ Constructed
    /\ unit \in {[entity |-> e, filter_field |-> f, done |-> {},
                  filtered |-> NotApplied, simplified |-> NotApplied,
                  slimmed |-> NotApplied, details |-> NotApplied] :
                    e \in EntitySamples, f \in AllowlistSamples}

ApplyFilter ==
    /\ "filter" \notin unit.done
    /\ unit' = [unit EXCEPT
                  !.filtered = filter_entity(unit.entity, unit.filter_field),
                  !.done = @ \cup {"filter"}]
    /\ UNCHANGED machine

ApplySimplify ==
    /\ "simplify" \notin unit.done
    /\ "attributes" \in DOMAIN unit.entity.v
    /\ unit' = [unit EXCEPT
                  !.simplified =
                      simplify_reltio_attributes(unit.entity.v.attributes),
                  !.done = @ \cup {"simplify"}]
    /\ UNCHANGED machine

ApplySlim ==
    /\ "slim" \notin unit.done
    /\ "crosswalks" \in DOMAIN unit.entity.v
    /\ unit' = [unit EXCEPT
                  !.slimmed = slim_crosswalks(unit.entity.v.crosswalks),
                  !.done = @ \cup {"slim"}]
    /\ UNCHANGED machine

ApplyDetails ==
    /\ "details" \notin unit.done
    /\ unit' = [unit EXCEPT
                  !.details = EntityDetails(unit.entity, unit.filter_field),
                  !.done = @ \cup {"details"}]
    /\ UNCHANGED machine

NextReshape ==
    \/ ApplyFilter
    \/ ApplySimplify
    \/ ApplySlim
    \/ ApplyDetails

SpecReshape == InitReshape /\ [][NextReshape]_vars

(***************************************************************************)
(* Several invocations in one server process.  The header dicts are        *)
(* objects of the process heap: a call holds references to them, and what  *)
(* a request carries is what its dict holds when the request is sent.      *)
(***************************************************************************)
\* "loop": the server of main.py 7-9.  mcp.run serves every call on one
\* event loop, and a tool coroutine blocks in requests.request and never
\* suspends (its only awaits are on log_activity, which does not suspend
\* either), so a call runs from its first statement to its return before
\* the next call starts.
\* "threads": a host that calls the same tool functions from several threads
\* or loops of one process; the steps of two calls interleave.  A step is
\* the code a call runs between two upstream answers.
Hosts == {"loop", "threads"}
Slots == 1..MaxRunning
\* a call holds at most three dicts: the tool's `headers`, the `headers`
\* of log_activity and the `headers` of http_request
Cells == 1..(3 * MaxRunning)
NoObject == PyNone

\* the calls whose steps interleave: one tool of each shape of body (two
\* data calls and an audit, one data call and an audit, no audit, an audit
\* block that raises before its call, no request at all), each with one
\* set of valid arguments; on the loop every tool with every argument
PairTools ==
    {"get_entity_match_history", "get_entity_details",
     "get_business_configuration", "search_entities", "list_capabilities"}
PairArgs(host, t) ==
    IF host = "loop" THEN ArgsFor(t)
    ELSE IF t \notin PairTools THEN {}
    ELSE {a \in ArgsFor(t) :
            /\ "tenant_id" \in DOMAIN a => a.tenant_id = GoodTenant
            /\ "entity_id" \in DOMAIN a => a.entity_id = GoodId
            /\ "filter_field" \in DOMAIN a => a.filter_field = PyNone
            /\ "max_results" \in DOMAIN a => a.max_results \in {10, 25}
            /\ "select" \in DOMAIN a
                  => /\ a.select = <<>> /\ a.sort = <<>>
                     /\ a.entity_type = <<>> /\ a.options = OvOnly
                     /\ a.activeness = Active /\ a.trace = FALSE
            /\ "filter" \in DOMAIN a
                  => a.filter = <<>> /\ a.order = <<"a", "s", "c">>
            /\ "offset" \in DOMAIN a => a.offset = 0}
\* the upstream answers while steps interleave: one of each class that
\* leads to a different use of the header dicts (a token or none; a
\* document that lets every data call and the audit go on, or the 401 that
\* makes http_request fetch new headers); on the loop every answer
ThreadTokenResponses == {[kind |-> "token"], [kind |-> "fail", text |-> <<>>]}
PairTokenResponses(host) ==
    IF host = "loop" THEN TokenResponses ELSE ThreadTokenResponses
ThreadResponses ==
    {[kind |-> "json", body |-> WellFormedDict],
     [kind |-> "http", status |-> 401, text |-> InvalidTokenText]}
PairResponses(host) == IF host = "loop" THEN Responses ELSE ThreadResponses

\* no call in the slot
NoCall == [tool |-> "none", args |-> [tenant_id |-> GoodTenant],
           s |-> Fresh, ups |-> <<>>, hdr |-> 0, log |-> 0, sent |-> 0]

\* mutation: get_reltio_headers fills and returns one module-level dict
ModuleLevelObject(heap) == Least(Cells)

\* the dict display of get_reltio_headers (auth.py 37-42) builds a new
\* object on every call: a cell that no reference points to
NewObject(heap) == Least({o \in Cells : heap[o] = NoObject})

\* what a name bound to object o holds; 0 is the name not yet bound
Deref(heap, o) == IF o = 0 THEN PyNone ELSE heap[o]

\* the invocation of call c with its dicts read from the heap: `headers` of
\* the tool and `headers` of the http_request call in flight
Load(c, heap) ==
    [c.s EXCEPT !.headers = Deref(heap, c.hdr),
                !.ctx = [@ EXCEPT !.headers = Deref(heap, c.sent)]]

\* the objects call c refers to
Held(c) == {c.hdr, c.log, c.sent} \ {0}

\* the invocation as call c keeps it: the dicts are on the heap only
Kept(s1) ==
    [s1 EXCEPT !.headers = PyNone, !.ctx = [@ EXCEPT !.headers = PyNone]]

\* the tool function has returned: its frames and their names are gone
Unwound(c, s1) ==
    [c EXCEPT !.s = Kept(s1), !.hdr = 0, !.log = 0, !.sent = 0]

\* the names of call c after get_reltio_headers returned object o and the
\* invocation became s1: `headers` of http_request inside its 401 branch
\* (api.py 47), `headers` of the tool, or `headers` of log_activity
\* (activity_log.py 57); the name of the http_request call that follows is
\* bound to the same object
BoundToken(c, s1, o) ==
    IF s1.pc = "done" THEN Unwound(c, s1)
    ELSE IF c.s.ctx.refetching THEN [c EXCEPT !.s = Kept(s1), !.sent = o]
    ELSE IF c.s.ctx.call = "primary"
    THEN [c EXCEPT !.s = Kept(s1), !.hdr = o, !.sent = o]
    ELSE [c EXCEPT !.s = Kept(s1), !.log = o, !.sent = o]

\* the names of call c after an answer to its request left it as s1: the
\* secondary call is given the tool's `headers`; inside the 401 branch
\* nothing is rebound before get_reltio_headers returns; otherwise
\* http_request and log_activity have returned
BoundHttp(c, s1) ==
    IF s1.pc = "done" THEN Unwound(c, s1)
    ELSE IF s1.pc = "await_http"
    THEN [c EXCEPT !.s = Kept(s1), !.sent = c.hdr, !.log = 0]
    ELSE IF s1.ctx.refetching THEN [c EXCEPT !.s = Kept(s1)]
    ELSE [c EXCEPT !.s = Kept(s1), !.sent = 0, !.log = 0]

\* what the new dict holds once the statement that called
\* get_reltio_headers is over: log_activity adds ActivityID to the object
\* it was given (activity_log.py 57-58)
Written(c, h) ==
    IF c.s.ctx.call = "audit" /\ ~c.s.ctx.refetching THEN AuditHeaders(h)
    ELSE h

\* reference counting: an object no name is bound to is freed
Collected(heap, calls) ==
    [o \in Cells |->
        IF \E i \in Slots : o \in Held(calls[i]) THEN heap[o] ELSE NoObject]

Stored(p, i, c, heap) ==
    [p EXCEPT !.calls[i] = c,
              !.heap = Collected(heap, [p.calls EXCEPT ![i] = c])]

\* the auth server answers r to call i; h is what get_reltio_headers makes
\* of the answer and s1 the invocation after the step
TokenBound(p, i, r, h, s1) ==
    IF IsRaise(h)
    THEN Stored(p, i, [Unwound(p.calls[i], s1) EXCEPT !.ups = Append(@, r)],
                p.heap)
    ELSE Stored(p, i,
                [BoundToken(p.calls[i], s1, NewObject(p.heap))
                    EXCEPT !.ups = Append(@, r)],
                [p.heap EXCEPT ![NewObject(p.heap)] = Written(p.calls[i], h)])

TokenLoaded(p, i, r, s0) ==
    TokenBound(p, i, r, get_reltio_headers(r, Fetches(s0.trace)),
               OnToken(s0, p.calls[i].tool, p.calls[i].args, r))

OnPairToken(p, i, r) == TokenLoaded(p, i, r, Load(p.calls[i], p.heap))

\* the API answers r to call i
HttpLoaded(p, i, r, s0) ==
    Stored(p, i,
           [BoundHttp(p.calls[i],
                      OnHttp(s0, p.calls[i].tool, p.calls[i].args, r))
               EXCEPT !.ups = Append(@, r)],
           p.heap)

OnPairHttp(p, i, r) == HttpLoaded(p, i, r, Load(p.calls[i], p.heap))

InitPair ==
    /\ Constructed
    /\ unit \in [host : Hosts, heap : {[o \in Cells |-> NoObject]},
                 calls : {[i \in Slots |-> NoCall]}, returned : {FALSE}]

Free(p) == {i \in Slots : p.calls[i].tool = "none"}

\* the invocation layer may call a tool function, any number of times: on
\* the loop when the call before it has returned; under threads at any
\* time, beside the calls in flight, of which there are at most MaxRunning
CanStart(p) ==
    IF p.host = "loop" THEN Free(p) = Slots
    ELSE Free(p) # {}
\* the tools that may be called now
Ready == IF CanStart(unit) THEN Tools ELSE {}

PairInvoke(t, a) ==
    /\ CanStart(unit)
    /\ unit' = [unit EXCEPT
                  !.calls[Least(Free(unit))] =
                      [NoCall EXCEPT !.tool = t, !.args = a,
                                     !.s = Start(t, a)]]
    /\ UNCHANGED <<machine, gate>>

PairToken(i, r) ==
    /\ unit.calls[i].s.pc = "await_token"
    /\ unit' = OnPairToken(unit, i, r)
    /\ UNCHANGED <<machine, gate>>

PairHttp(i, r) ==
    /\ unit.calls[i].s.pc = "await_http"
    /\ Attempts(unit.calls[i].s.trace, unit.calls[i].s.ctx.call)
          <= MaxAttempts
    /\ http_request(r, Load(unit.calls[i], unit.heap).ctx.headers,
                    unit.calls[i].s.ctx.retry_on_401).out = "refetch"
          => Attempts(unit.calls[i].s.trace, unit.calls[i].s.ctx.call)
                < MaxAttempts
    /\ unit' = OnPairHttp(unit, i, r)
    /\ UNCHANGED <<machine, gate>>

\* the invocation layer takes the result of call i
PairReturn(i) ==
    /\ unit.calls[i].tool # "none"
    /\ unit.calls[i].s.pc = "done"
    /\ unit' = [Stored(unit, i, NoCall, unit.heap) EXCEPT !.returned = TRUE]
    /\ UNCHANGED <<machine, gate>>

NextPair ==
    \/ \E t \in Ready : \E a \in PairArgs(unit.host, t) : PairInvoke(t, a)
    \/ \E i \in Slots :
          \E r \in PairTokenResponses(unit.host) : PairToken(i, r)
    \/ \E i \in Slots : \E r \in PairResponses(unit.host) : PairHttp(i, r)
    \/ \E i \in Slots : PairReturn(i)

SpecPair == InitPair /\ [][NextPair]_vars

RECURSIVE Run(_, _, _, _)
\* the invocation s of tool t given the answers one after the other
Run(s, t, a, answers) ==
    IF answers = <<>> \/ s.pc \notin {"await_token", "await_http"} THEN s
    ELSE Run(IF s.pc = "await_token"
             THEN OnToken(s, t, a, Head(answers))
             ELSE OnHttp(s, t, a, Head(answers)),
             t, a, Tail(answers))
\* tool t run alone with arguments a and these upstream answers
Alone(t, a, answers) == Run(Start(t, a), t, a, answers)

(***************************************************************************)
(* Vocabulary of the properties                                            *)
(***************************************************************************)
Done == pc = "done"
SchemaTools == {t \in ApiTools : ToolTable[t].schema # "none"}
IsErrorResult(x) == IsDict(x) /\ "error" \in DOMAIN x.v
IsEnvelope(x) ==
    /\ IsErrorResult(x)
    /\ IsDict(x.v.error)
    /\ "code_key" \in DOMAIN x.v.error.v
CodeKeyOf(x) == x.v.error.v.code_key.v
HasCodeKey(x, keys) == IsEnvelope(x) /\ CodeKeyOf(x) \in keys
Uniform(x) ==
    /\ IsDict(x)
    /\ DOMAIN x.v = {"error"}
    /\ IsDict(x.v.error)
    /\ DOMAIN x.v.error.v = {"code", "code_key", "message", "details"}
    /\ IsInt(x.v.error.v.code)
    /\ IsStr(x.v.error.v.code_key)
    /\ IsStr(x.v.error.v.message)
    /\ IsDict(x.v.error.v.details)
    /\ DOMAIN x.v.error.v.details.v \subseteq SafeDetailKeys
Same(x, y) == x.t = y.t /\ x = y

Calls == {"primary", "secondary", "audit"}
HttpAt(i, c) == trace[i].ev = "http" /\ trace[i].call = c
TokenAt(i, c) == trace[i].ev = "token" /\ trace[i].call = c
Idx == 1..Len(trace)
\* the first and the second network attempt of call c
FirstAttempt(c) == CHOOSE i \in Idx : HttpAt(i, c) /\ \A j \in 1..(i - 1) : ~HttpAt(j, c)
SecondAttempt(c) ==
    CHOOSE i \in Idx : HttpAt(i, c) /\ i > FirstAttempt(c)
                          /\ \A j \in (FirstAttempt(c) + 1)..(i - 1) : ~HttpAt(j, c)
Rejected401 == {"401", "401_invalid_token"}
\* the first attempt of call c was answered 401 with invalid_token
FirstAnswered401(c) ==
    /\ Attempts(trace, c) >= 1
    /\ trace[FirstAttempt(c)].ans = "401_invalid_token"
\* the token fetch http_request makes after that answer
RefetchOf(c) == FirstAttempt(c) + 1
PrimaryFailed == primary.out = "raise"
PrimarySucceeded == primary.out = "return"
PrimaryMsg == StrOfExc(primary.val)

\* C1: for every tool that validates its arguments with a request schema,
\* if schema validation fails the tool returns an envelope whose code_key is
\* VALIDATION_ERROR and no token fetch, no security-gate check and no HTTP
\* request has been made in that invocation.
C1_ValidationFailureReturnsBeforeAnyCall ==
    (Done /\ tool \in SchemaTools /\ ~Validate(tool, args).ok)
        => /\ HasCodeKey(result, {"VALIDATION_ERROR"})
           /\ trace = <<>>

C1_Witness ==
    /\ Done
    /\ tool = "merge_entities"
    /\ Len(args.entity_ids) = 3
    /\ HasCodeKey(result, {"VALIDATION_ERROR"})
    /\ trace = <<>>

\* C2: one call of http_request makes at most two network attempts: a second
\* attempt runs with retry_on_401 = false and after it neither a further
\* attempt nor a further token fetch is made for that call.
C2_AtMostTwoAttemptsPerRequest ==
    \A c \in Calls :
        /\ Attempts(trace, c) <= 2
        /\ Attempts(trace, c) = 2 =>
              /\ trace[SecondAttempt(c)].flag = FALSE
              /\ \A k \in (SecondAttempt(c) + 1)..Len(trace) :
                    ~HttpAt(k, c) /\ ~TokenAt(k, c)

C2_Witness ==
    /\ Done
    /\ Attempts(trace, "primary") = 2
    /\ trace[SecondAttempt("primary")].ans = "401_invalid_token"
    /\ Fetches(trace) = 2

\* C3 as stated, read in its favour (the fresh token fetch succeeds): when
\* the first attempt of the primary request is answered 401 with
\* invalid_token, exactly one retry is made with headers from the fresh token
\* fetch, and if the retry is answered 401 too the tool returns an envelope
\* whose code_key is AUTHENTICATION_ERROR or SERVER_ERROR.
C3_AsStated ==
    (Done /\ FirstAnswered401("primary")
          /\ trace[RefetchOf("primary")].ans = "ok")
        => /\ Attempts(trace, "primary") = 2
           /\ trace[SecondAttempt("primary")].tok # trace[FirstAttempt("primary")].tok
           /\ trace[SecondAttempt("primary")].ans \in Rejected401
                 => HasCodeKey(result, {"AUTHENTICATION_ERROR", "SERVER_ERROR"})

\* C3: when the first attempt of the primary request is answered 401 with
\* invalid_token, a fresh token fetch follows; if the fetch fails no retry is
\* made and the request fails; if it succeeds exactly one retry is made with
\* the fresh token; if the retry is answered 401 too no further attempt is
\* made and the tool returns the envelope of its failure handler
\* (SERVER_ERROR, API_REQUEST_ERROR, RESOURCE_NOT_FOUND or INVALID_REQUEST).
C3_OneRetryWithFreshToken ==
    (Done /\ FirstAnswered401("primary"))
        => /\ RefetchOf("primary") \in Idx
           /\ TokenAt(RefetchOf("primary"), "primary")
           /\ trace[RefetchOf("primary")].ans = "failed"
                 => /\ Attempts(trace, "primary") = 1
                    /\ PrimaryFailed
                    /\ IsEnvelope(result)
           /\ trace[RefetchOf("primary")].ans = "ok"
                 => /\ Attempts(trace, "primary") = 2
                    /\ SecondAttempt("primary") = RefetchOf("primary") + 1
                    /\ trace[SecondAttempt("primary")].tok = 2
                    /\ trace[FirstAttempt("primary")].tok = 1
                    /\ trace[SecondAttempt("primary")].ans \in Rejected401
                          => /\ PrimaryFailed
                             /\ HasCodeKey(result,
                                    {"SERVER_ERROR", "API_REQUEST_ERROR",
                                     "RESOURCE_NOT_FOUND", "INVALID_REQUEST"})

C3_Witness ==
    /\ Done
    /\ FirstAnswered401("primary")
    /\ Attempts(trace, "primary") = 2
    /\ trace[SecondAttempt("primary")].ans = "401"
    /\ HasCodeKey(result, {"SERVER_ERROR"})

ThreeWay(msg) ==
    IF Contains(msg, Sub404) THEN "RESOURCE_NOT_FOUND"
    ELSE IF Contains(msg, Sub400) THEN "INVALID_REQUEST"
    ELSE "SERVER_ERROR"

\* C4 as stated: for every tool, when the primary HTTP call fails the
\* code_key is RESOURCE_NOT_FOUND if the message contains "404", otherwise
\* INVALID_REQUEST if it contains "400", otherwise SERVER_ERROR.
C4_AsStated ==
    (Done /\ PrimaryFailed) => HasCodeKey(result, {ThreeWay(PrimaryMsg)})

ThreeWayTools ==
    {"merge_entities", "reject_entity_match", "unmerge_entity_by_contributor",
     "unmerge_entity_tree_by_contributor"}
NotFoundOnlyTools ==
    {"get_entity_details", "update_entity_attributes", "get_entity_matches",
     "get_entity_match_history", "get_relation_details", "get_merge_activities"}
AlwaysServerErrorTools ==
    {"search_entities", "find_matches_by_match_score",
     "find_matches_by_confidence", "get_total_matches",
     "get_total_matches_by_entity_type", "export_merge_tree"}

\* C4: when the primary HTTP call fails, the code_key is decided by the
\* message and the tool: the four merge/reject/unmerge tools classify 404,
\* then 400, then SERVER_ERROR; six tools test only "404"; the search, match
\* and export tools always answer SERVER_ERROR; the tenant configuration
\* tools always answer API_REQUEST_ERROR.
C4_ClassificationPerTool ==
    (Done /\ PrimaryFailed)
        => /\ IsEnvelope(result)
           /\ tool \in ThreeWayTools => CodeKeyOf(result) = ThreeWay(PrimaryMsg)
           /\ tool \in NotFoundOnlyTools =>
                 CodeKeyOf(result) = IF Contains(PrimaryMsg, Sub404)
                                     THEN "RESOURCE_NOT_FOUND"
                                     ELSE "SERVER_ERROR"
           /\ tool \in AlwaysServerErrorTools => CodeKeyOf(result) = "SERVER_ERROR"
           /\ tool \in DOMAIN TenantConfigTools =>
                 CodeKeyOf(result) = "API_REQUEST_ERROR"

C4_Witness ==
    /\ Done
    /\ PrimaryFailed
    /\ tool = "get_entity_details"
    /\ Contains(PrimaryMsg, Sub400)
    /\ ~Contains(PrimaryMsg, Sub404)
    /\ HasCodeKey(result, {"SERVER_ERROR"})

\* C5: no tool function ever raises: whatever validation, token fetch,
\* gate, HTTP calls, reshaping and audit do, the invocation ends by returning
\* a value.
C5_NoToolRaises == Done => ~IsRaise(result)

C5_Witness ==
    /\ Done
    /\ tool = "get_relation_details"
    /\ PrimarySucceeded
    /\ ~IsDict(primary.val)
    /\ audited
    /\ HasCodeKey(result, {"SERVER_ERROR"})

\* C6 as stated: every failure result returned by a tool is the uniform
\* envelope {error: {code int, code_key str, message str, details}} with
\* details inside the safe-list.
C6_AsStated == (Done /\ IsErrorResult(result)) => Uniform(result)

\* C7: with the same arguments and the same answers to the primary and
\* secondary requests, the value the tool returns when the audit emission
\* fails (token fetch, gate or POST) is the value it returns when the audit
\* succeeds.
C7_AuditNeverChangesResult == (Done /\ round = 2) => Same(result, ref)

C7_Witness ==
    /\ Done
    /\ round = 2
    /\ Attempts(trace, "audit") = 1
    /\ trace[FirstAttempt("audit")].ans = "error"
    /\ Same(result, ref)
    /\ ~IsErrorResult(result)

\* C8 as stated: every tool, whenever its primary HTTP call succeeds and it
\* returns a non-error result, has called
\* ActivityLog.execute_and_log_activity before returning.
C8_AsStated ==
    (Done /\ PrimarySucceeded /\ ~IsErrorResult(result)) => audited

\* C9 as stated: within one invocation at most one network attempt is made
\* for the audit record, and its failure is never raised out of the tool.
C9_AsStated ==
    /\ Attempts(trace, "audit") <= 1
    /\ Done => ~IsRaise(result)

\* C9: the audit POST is retried at most once: a second attempt is made
\* only after a 401 with invalid_token and a successful fresh token fetch,
\* it runs with retry_on_401 = false, there is never a third, and a failure
\* of the audit is never raised out of the tool.
C9_AuditRetriedAtMostOnce ==
    /\ Attempts(trace, "audit") <= 2
    /\ Attempts(trace, "audit") = 2 =>
          /\ trace[FirstAttempt("audit")].ans = "401_invalid_token"
          /\ TokenAt(RefetchOf("audit"), "audit")
          /\ trace[RefetchOf("audit")].ans = "ok"
          /\ trace[SecondAttempt("audit")].flag = FALSE
    /\ Done => ~IsRaise(result)

C9_Witness ==
    /\ Done
    /\ Attempts(trace, "audit") = 2
    /\ trace[SecondAttempt("audit")].ans = "401_invalid_token"
    /\ ~IsErrorResult(result)

\* C10: in get_entity_matches, when the transitive-match call succeeds with
\* an empty or null result, the tool returns {message, matches: []} and the
\* source-entity fetch is never issued.
C10_NoMatchesShortCircuits ==
    (Done /\ tool = "get_entity_matches" /\ PrimarySucceeded
          /\ ~Truthy(primary.val))
        => /\ IsDict(result)
           /\ DOMAIN result.v = {"message", "matches"}
           /\ IsList(result.v.matches)
           /\ Len(result.v.matches.v) = 0
           /\ Attempts(trace, "secondary") = 0

C10_Witness ==
    /\ Done
    /\ tool = "get_entity_matches"
    /\ PrimarySucceeded
    /\ primary.val.t = "none"
    /\ IsDict(result)
    /\ Attempts(trace, "secondary") = 0

\* the last request sent for call c, and whether that call failed
LastOf(c) == CHOOSE i \in Idx : trace[i].call = c /\ trace[i].ev # "gate"
                                /\ \A j \in (i + 1)..Len(trace) :
                                       trace[j].call # c \/ trace[j].ev = "gate"
SecondaryFailed ==
    /\ Attempts(trace, "secondary") >= 1
    /\ trace[LastOf("secondary")].ans \notin {"ok", "pending"}
PartialPrefix == "Found matches but could not retrieve source entity details: "

\* C11: in get_entity_matches, when the match call returned a non-empty
\* result and the source-entity fetch then fails (error status, transport
\* error, undecodable body or a failed token refresh), the tool returns the
\* non-error dictionary {message, matches} whose matches are the complete
\* answer of the match call and whose message says the source entity could
\* not be retrieved.
C11_EnrichmentFailureKeepsMatches ==
    (Done /\ tool = "get_entity_matches" /\ PrimarySucceeded
          /\ Truthy(primary.val) /\ SecondaryFailed)
        => /\ IsDict(result)
           /\ ~IsErrorResult(result)
           /\ DOMAIN result.v = {"message", "matches"}
           /\ Same(result.v.matches, primary.val)
           /\ IsStr(result.v.message)
           /\ Len(result.v.message.v) >= 1
           /\ result.v.message.v[1] = PartialPrefix

C11_Witness ==
    /\ Done
    /\ tool = "get_entity_matches"
    /\ PrimarySucceeded
    /\ IsList(primary.val)
    /\ Len(primary.val.v) = 1
    /\ SecondaryFailed
    /\ trace[LastOf("secondary")].ev = "http"
    /\ IsDict(result)
    /\ "matches" \in DOMAIN result.v
    /\ IsList(result.v.matches)
    /\ Len(result.v.matches.v) = 1

\* the token fetch of the tool's own get_reltio_headers() failed
InitialAuthFailed ==
    /\ Len(trace) >= 1
    /\ TokenAt(1, "primary")
    /\ trace[1].ans = "failed"
\* the security gate rejected call c
GateRejected(c) ==
    \E i \in Idx : trace[i].ev = "gate" /\ trace[i].call = c
                       /\ trace[i].ans = "failed"
\* tools whose gate call has its own except SecurityError clause
SecurityErrorTools ==
    {"get_entity_matches", "get_entity_match_history",
     "find_matches_by_match_score", "find_matches_by_confidence",
     "get_total_matches", "get_total_matches_by_entity_type"}
AuthorizationErrorTools == {"get_merge_activities"}
GateKeyOf(t) ==
    IF t \in SecurityErrorTools THEN "SECURITY_ERROR"
    ELSE IF t \in AuthorizationErrorTools THEN "AUTHORIZATION_ERROR"
    ELSE "AUTHENTICATION_ERROR"

\* C12 as stated: in every tool, if obtaining the auth headers fails or the
\* security gate rejects the request, the tool returns an envelope whose
\* code_key is AUTHENTICATION_ERROR and the primary HTTP call is never made.
C12_AsStated ==
    (Done /\ (InitialAuthFailed \/ GateRejected("primary")))
        => /\ HasCodeKey(result, {"AUTHENTICATION_ERROR"})
           /\ Attempts(trace, "primary") = 0

\* C12: if obtaining the auth headers fails the tool returns an
\* AUTHENTICATION_ERROR envelope; if the security gate rejects the request
\* the envelope's code_key is SECURITY_ERROR in get_entity_matches,
\* get_entity_match_history and the four match tools, AUTHORIZATION_ERROR in
\* get_merge_activities and AUTHENTICATION_ERROR in the other tools; in both
\* cases the primary HTTP call is never made.
C12_AuthOrGateFailureStopsTheTool ==
    /\ (Done /\ InitialAuthFailed)
          => /\ HasCodeKey(result, {"AUTHENTICATION_ERROR"})
             /\ Attempts(trace, "primary") = 0
    /\ (Done /\ GateRejected("primary"))
          => /\ HasCodeKey(result, {GateKeyOf(tool)})
             /\ Attempts(trace, "primary") = 0

C12_Witness ==
    /\ Done
    /\ tool = "get_merge_activities"
    /\ GateRejected("primary")
    /\ HasCodeKey(result, {"AUTHORIZATION_ERROR"})
    /\ Attempts(trace, "primary") = 0

\* C13 as stated, one http_request call counted as one outbound request:
\* every request sent for the primary call, the secondary source-entity
\* fetch or the audit POST is preceded in the same invocation by a passed
\* security-gate check made for that call, and the gate is run at most once
\* per call.
C13_AsStated ==
    /\ \A i \in Idx :
          trace[i].ev = "http"
              => \E j \in 1..(i - 1) : /\ trace[j].ev = "gate"
                                       /\ trace[j].call = trace[i].call
                                       /\ trace[j].ans = "ok"
    /\ \A c \in Calls :
          Cardinality({j \in Idx : trace[j].ev = "gate" /\ trace[j].call = c}) <= 1

\* C14 as stated: no tool makes a token fetch or an API request with a
\* tenant id that fails the tenant pattern; it returns a validation failure
\* instead.
C14_AsStated ==
    (tool \in ApiTools /\ ~TENANT_ID_PATTERN(args.tenant_id))
        => /\ trace = <<>>
           /\ Done => HasCodeKey(result, {"VALIDATION_ERROR"})

PagingTools ==
    {"search_entities", "find_matches_by_match_score",
     "find_matches_by_confidence", "get_merge_activities"}

\* C15 as stated: for every tool that takes offset and max_results and every
\* caller-supplied pair with offset + max_results > 10000, the tool returns
\* VALIDATION_ERROR and makes no token fetch and no HTTP request.
C15_AsStated ==
    (tool \in PagingTools /\ args.offset + args.max_results > 10000)
        => /\ trace = <<>>
           /\ Done => HasCodeKey(result, {"VALIDATION_ERROR"})

\* C16: merge_entities called with a list of entity ids whose length is not
\* exactly 2 returns a VALIDATION_ERROR envelope, and no token fetch and no
\* HTTP request is made in that invocation.
C16_MergeNeedsExactlyTwoIds ==
    (tool = "merge_entities" /\ Len(args.entity_ids) # 2)
        => /\ Done
           /\ HasCodeKey(result, {"VALIDATION_ERROR"})
           /\ trace = <<>>

C16_Witness ==
    /\ Done
    /\ tool = "merge_entities"
    /\ Len(args.entity_ids) = 1
    /\ TENANT_ID_PATTERN(args.tenant_id)
    /\ HasCodeKey(result, {"VALIDATION_ERROR"})
    /\ Fetches(trace) = 0
    /\ Attempts(trace, "primary") = 0

\* C17 as stated: for every identifier x, validating the prefixed form and
\* validating the bare form have the same outcome (both rejected, or both
\* accepted with the same id), and validating an id that validation has
\* produced returns it unchanged.
C17_AsStated ==
    /\ {"bare", "prefixed"} \subseteq unit.done
          => /\ unit.bare.ok = unit.prefixed.ok
             /\ unit.bare.id = unit.prefixed.id
    /\ "again" \in unit.done
          => /\ unit.again.ok
             /\ unit.again.id = unit[unit.from].id

EntityIdTools ==
    {"get_entity_details", "get_entity_matches", "get_entity_match_history"}

\* C18 as stated: every entity id that passes validation, the value then
\* substituted into the request URL, itself matches the identifier pattern
\* (5 to 30 characters from letters, digits, '-', '_', '/').
C18_AsStated ==
    (tool \in EntityIdTools /\ Attempts(trace, "primary") >= 1)
        => /\ "entity_id" \in DOMAIN request
           /\ ENTITY_ID_PATTERN(request.entity_id)

\* the search tool has sent its search request
SearchSent == tool = "search_entities" /\ Attempts(trace, "primary") >= 1

\* C19 as stated: when the search tool is invoked with an entity type T, the
\* filter in the payload sent to the remote API is the caller's filter
\* AND-combined with equals(type,'configuration/entityTypes/T'), quotes
\* included, and exactly that clause when the caller's filter is empty.
C19_AsStated ==
    (SearchSent /\ args.entity_type # <<>>)
        => SearchPayload(request).filter =
              IF args.filter = <<>> THEN TypeClause(args.entity_type)
              ELSE args.filter \o AndText \o TypeClause(args.entity_type)

\* C20 as stated: for every select argument given to the search tool, the
\* select list sent to the remote API contains the field uri as one of its
\* comma-separated entries.
C20_AsStated ==
    SearchSent
        => \E i \in 1..Len(Split(SearchPayload(request).select, ",")) :
              Split(SearchPayload(request).select, ",")[i] = UriText

\* the primary request was answered with a success status and an empty body
\* (response.json() raised), or with the JSON document null
EmptyBodyAnswer == PrimaryFailed /\ primary.val.v.exc = "JSONDecodeError"
NullBodyAnswer == PrimarySucceeded /\ primary.val.t = "none"
SuccessPrefix == "Successfully rejected match between entities "

\* C21 as stated: in reject_entity_match, when the upstream answers the POST
\* with a success status and an empty or null response body, the tool
\* returns {success: true, message: "Successfully rejected match ..."},
\* never an error envelope and never the empty body itself.
C21_AsStated ==
    (Done /\ tool = "reject_entity_match"
          /\ (EmptyBodyAnswer \/ NullBodyAnswer))
        => /\ IsDict(result)
           /\ DOMAIN result.v = {"success", "message"}
           /\ result.v.success.t = "bool"
           /\ result.v.success.v
           /\ result.v.message.v[1] = SuccessPrefix

\* the number of occurrences of c among the first k characters of s
Occurrences(s, c, k) == Cardinality({i \in 1..k : s[i] = c})

\* every prefix of s has at least as many '(' as ')', and s as many
Balanced(s) ==
    /\ Occurrences(s, "(", Len(s)) = Occurrences(s, ")", Len(s))
    /\ \A k \in 1..Len(s) :
          Occurrences(s, "(", k) >= Occurrences(s, ")", k)

\* C22 as stated: every filter expression sent to the remote API by the
\* search, match-score, confidence, total-matches and facets tools has balanced
\* parentheses: as many '(' as ')' and no prefix with more ')' than '('.
C22_AsStated ==
    (tool \in FilterTools /\ Attempts(trace, "primary") >= 1)
        => Balanced(FilterSent(tool, request))

\* ---- C23: the field allowlist of get_entity_details ----
Filtered == "filter" \in unit.done /\ "details" \in unit.done
AllowlistGiven == IsDict(unit.filter_field) /\ Truthy(unit.filter_field)
\* the mapping get_entity_details dumps
Returned == unit.details.v[2]
\* the allowed fields of the entity that are neither None nor empty
AllowedFields ==
    {f \in DOMAIN unit.filter_field.v \cap DOMAIN unit.entity.v :
        is_valid(unit.entity.v[f])}
\* the attributes of field f the allowlist asks for
AllowedAttributes(f) ==
    {k \in DOMAIN unit.entity.v[f].v :
        /\ is_valid(unit.entity.v[f].v[k])
        /\ Truthy(unit.filter_field.v[f])
             => Listed(unit.filter_field.v[f], k)}

\* the filtered entity has only allowed, non-empty fields, and of a
\* mapping-valued field only the attributes asked for
FilteredOnlyAllowed ==
    (Filtered /\ AllowlistGiven)
        => /\ DOMAIN unit.filtered.v \subseteq AllowedFields
           /\ \A f \in DOMAIN unit.filtered.v :
                IF IsDict(unit.entity.v[f])
                THEN /\ IsDict(unit.filtered.v[f])
                     /\ DOMAIN unit.filtered.v[f].v = AllowedAttributes(f)
                     /\ \A k \in AllowedAttributes(f) :
                          unit.filtered.v[f].v[k] = unit.entity.v[f].v[k]
                ELSE unit.filtered.v[f] = unit.entity.v[f]

\* C23 as stated: with a non-empty allowlist the filtered entity contains a
\* top-level field only if the allowlist names it, a None or empty value is
\* dropped even when allowed, a mapping-valued field keeps the listed
\* attributes (all non-empty ones for an empty list), and every allowed,
\* non-empty field of the entity appears in the result returned to the
\* caller.
C23_AsStated ==
    /\ FilteredOnlyAllowed
    /\ (Filtered /\ AllowlistGiven)
         => /\ IsStr(unit.details)
            /\ AllowedFields \subseteq DOMAIN Returned.v

\* ---- C24: simplify_reltio_attributes ----
\* the records of a value list that have a 'value' key, in input order
ValueRecords(value_list) ==
    IF IsList(value_list)
    THEN SelectSeq(value_list.v, LAMBDA item : HasKey(item, "value"))
    ELSE <<>>

RECURSIVE Simplifies(_, _)
\* entry is value itself, or a simplification of it when it is a mapping
EntryOf(value, entry) ==
    IF IsDict(value) THEN IsDict(entry) /\ Simplifies(value, entry)
    ELSE Same(value, entry)
\* out is a simplification of the attributes mapping attrs
Simplifies(attrs, out) ==
    /\ DOMAIN out.v
         = {k \in DOMAIN attrs.v : Len(ValueRecords(attrs.v[k])) > 0}
    /\ \A k \in DOMAIN out.v :
         LET records == ValueRecords(attrs.v[k])
         IN IF Len(records) = 1
            THEN EntryOf(records[1].v.value, out.v[k])
            ELSE /\ IsList(out.v[k])
                 /\ Len(out.v[k].v) = Len(records)
                 /\ \A i \in 1..Len(records) :
                      EntryOf(records[i].v.value, out.v[k].v[i])

Simplified ==
    "simplify" \in unit.done /\ IsDict(unit.entity.v.attributes)

\* C24: for every attributes mapping, simplify_reltio_attributes returns a
\* mapping in which a name is present if and only if its value list has a
\* record with a 'value' key; the entry is the single value when there is
\* exactly one such record and otherwise the list of all such values in
\* input order; a value that is a mapping is simplified by the same rule.
C24_SimplifyKeepsValues ==
    Simplified
        => /\ IsDict(unit.simplified)
           /\ Simplifies(unit.entity.v.attributes, unit.simplified)

\* a nested mapping simplified to a single value, a list of values and an
\* omitted name
C24_Witness ==
    /\ Simplified
    /\ "Address" \in DOMAIN unit.entity.v.attributes.v
    /\ DOMAIN unit.simplified.v = {"Address"}
    /\ DOMAIN unit.simplified.v.Address.v = {"Street", "Lines"}
    /\ unit.simplified.v.Address.v.Street = John
    /\ unit.simplified.v.Address.v.Lines = PyList(<<TextA, TextB>>)

\* ---- C25: slim_crosswalks ----
Slimmed == "slim" \in unit.done /\ IsList(unit.entity.v.crosswalks)
\* the mapping entries of the input list, in input order
Mappings == SelectSeq(unit.entity.v.crosswalks.v, IsDict)
\* field k of crosswalk cw is present: given, and neither null nor empty
Present(cw, k) == k \in DOMAIN cw.v /\ Truthy(cw.v[k])
\* the trailing path segment of a text
Trailing(x) == IF IsStr(x) THEN PyStr(LastSegment(x.v)) ELSE x
FirstPresent(cw, ks) ==
    IF \E i \in 1..Len(ks) : Present(cw, ks[i])
    THEN cw.v[ks[CHOOSE i \in 1..Len(ks) :
                    /\ Present(cw, ks[i])
                    /\ \A j \in 1..(i - 1) : ~Present(cw, ks[j])]]
    ELSE PyNone

\* C25 as stated: slim_crosswalks returns one record per mapping entry, in
\* input order, each with exactly the keys id, type, value and createDate;
\* id is the trailing path segment of uri whenever a uri is present and the
\* raw id only when no uri is present; type is the trailing path segment of
\* type; createDate is the first present of createDate, createTime,
\* createdTime.
C25_AsStated ==
    Slimmed
        => /\ IsList(unit.slimmed)
           /\ Len(unit.slimmed.v) = Len(Mappings)
           /\ \A i \in 1..Len(Mappings) :
                LET cw == Mappings[i]
                    out == unit.slimmed.v[i].v
                IN /\ DOMAIN out = {"id", "type", "value", "createDate"}
                   /\ Same(out.id,
                           IF Present(cw, "uri") THEN Trailing(cw.v.uri)
                           ELSE Get(cw, "id", PyNone))
                   /\ Same(out.type,
                           Trailing(Get(cw, "type", PyStr(<<>>))))
                   /\ Same(out.value, Get(cw, "value", PyNone))
                   /\ Same(out.createDate,
                           FirstPresent(cw, <<"createDate", "createTime",
                                              "createdTime">>))

\* ---- C26: the order of the outbound calls ----
\* the requests of call c: its token fetches and its HTTP attempts
RequestsOf(c) ==
    {i \in Idx : trace[i].call = c /\ trace[i].ev \in {"token", "http"}}
AuditRequested == RequestsOf("audit") # {}

\* C26: within one invocation the outbound calls are sequential and
\* ordered: a request is sent only when every earlier one is answered, the
\* token fetch precedes the primary call, the primary call precedes the
\* secondary call, and the audit call is made only after those calls have
\* succeeded; an invocation whose validation, token fetch, gate or primary
\* call failed makes no audit call.
C26_CallsInOrder ==
    /\ \A i \in 1..(Len(trace) - 1) : trace[i].ans # "pending"
    /\ \A i \in Idx :
         HttpAt(i, "primary")
            => \E k \in 1..(i - 1) : TokenAt(k, "primary") /\ trace[k].ans = "ok"
    /\ \A j \in RequestsOf("secondary") :
         /\ PrimarySucceeded
         /\ \A i \in RequestsOf("primary") : i < j
    /\ \A j \in RequestsOf("audit") :
         /\ PrimarySucceeded
         /\ \A i \in RequestsOf("primary") \cup RequestsOf("secondary") : i < j
         /\ RequestsOf("secondary") # {}
               => trace[LastOf("secondary")].ans = "ok"
    /\ (tool \in SchemaTools /\ ~Validate(tool, args).ok) => ~AuditRequested
    /\ (InitialAuthFailed \/ GateRejected("primary") \/ PrimaryFailed)
          => ~AuditRequested

\* get_entity_matches has made its three calls, one after the other
C26_Witness ==
    /\ Done
    /\ tool = "get_entity_matches"
    /\ Attempts(trace, "primary") >= 1
    /\ Attempts(trace, "secondary") >= 1
    /\ Attempts(trace, "audit") >= 1
    /\ \A i \in RequestsOf("primary") :
         \A j \in RequestsOf("secondary") :
            \A k \in RequestsOf("audit") : i < j /\ j < k

\* ---- C27: concurrent invocations ----
\* the invocation in slot i, and the same call run alone with the same
\* arguments and the same upstream answers
Call(i) == unit.calls[i]
\* C27: however the invocations of one process follow each other or
\* interleave their steps, each invocation, run on the dicts of the shared
\* heap, issues the same sequence of outbound requests (with the same
\* tokens and retry flags) and returns the same result as the same tool run
\* alone with the same arguments and the same upstream answers, and no
\* header dict is referred to by two invocations.
C27_InterleavingChangesNothing ==
    /\ \A i \in Slots :
          Call(i).tool # "none"
            => LET alone == Alone(Call(i).tool, Call(i).args, Call(i).ups)
               IN /\ Call(i).s.trace = alone.trace
                  /\ Call(i).s.pc = alone.pc
                  /\ Same(Call(i).s.result, alone.result)
    /\ \A i, j \in Slots : i # j => Held(Call(i)) \cap Held(Call(j)) = {}

\* on the loop, after an invocation has returned, the next one awaits the
\* answer to its retried audit request: it holds the dict of the tool, the
\* dict log_activity wrote ActivityID into and the dict of the retry
C27_Witness ==
    /\ unit.host = "loop"
    /\ unit.returned
    /\ Call(1).s.pc = "await_http"
    /\ Call(1).s.ctx.call = "audit"
    /\ Attempts(Call(1).s.trace, "audit") = 2
    /\ Cardinality(Held(Call(1))) = 3

\* ---- C28: the retried request ----
\* the second attempt of the call in flight has been sent
RetryInFlight == pc = "await_http" /\ Attempts(trace, ctx.call) = 2
\* the headers of the first attempt of the call in flight, up to the value
\* of Authorization: those of the tool, and for the audit call those
\* log_activity built, with their ActivityID
FirstAttemptHeaders ==
    IF ctx.call = "audit" THEN AuditHeaders(ctx.headers) ELSE headers

\* C28 as stated: the retried request after a 401 has the URL, method, query
\* parameters and body of the first attempt (http_request passes them on
\* unchanged), and its headers differ from the first attempt's only in the
\* value of Authorization: every other header of the first attempt, such as
\* the audit call's ActivityID, is still present.
C28_AsStated ==
    RetryInFlight
        => /\ DOMAIN ctx.headers.v = DOMAIN FirstAttemptHeaders.v
           /\ \A k \in DOMAIN FirstAttemptHeaders.v \ {"Authorization"} :
                ctx.headers.v[k] = FirstAttemptHeaders.v[k]

\* ---- C29: the number of outbound requests ----
\* the token fetches http_request made for call c after a 401
Refetches(c) ==
    Cardinality({i \in Idx : TokenAt(i, c) /\ \E j \in 1..(i - 1) : HttpAt(j, c)})
\* the calls of http_request the tool itself made for call c
CallsMade(c) == Cardinality({i \in Idx : HttpAt(i, c) /\ trace[i].flag})
\* every outbound HTTP request of the invocation, token fetches included
Outbound == {i \in Idx : trace[i].ev \in {"token", "http"}}

\* C29: whatever the upstream answers, an invocation makes a bounded number
\* of outbound HTTP requests: each of its API calls (primary, secondary,
\* audit) makes at most two attempts and at most one token re-fetch, the
\* invocation makes at most one primary, one secondary and one audit call,
\* and it has returned when its last request is answered, so that no
\* sequence of answers makes it repeat a request indefinitely.
C29_BoundedRequests ==
    /\ \A c \in Calls :
         /\ Attempts(trace, c) <= 2
         /\ Refetches(c) <= 1
         /\ CallsMade(c) <= 1
    /\ Cardinality(Outbound) <= 4 + 3 + 4
    /\ pc \in {"idle", "done"} <=> \A i \in Idx : trace[i].ans # "pending"

\* an invocation that made every request it can make: two attempts and a
\* token re-fetch for each of its three calls
C29_Witness ==
    /\ Done
    /\ \A c \in Calls : Attempts(trace, c) = 2 /\ Refetches(c) = 1
    /\ Cardinality(Outbound) = 4 + 3 + 4

\* ---- C30: the audit record and the result ----
\* the audit POST was accepted: the record describing the success exists
AuditEmitted ==
    \E i \in Idx : HttpAt(i, "audit") /\ trace[i].ans = "ok"

\* C30 as stated: an invocation that has emitted an audit record describing
\* the operation as successful returns a non-error result; none both records
\* a success in the audit log and returns an error envelope.
C30_AsStated == (Done /\ AuditEmitted) => ~IsErrorResult(result)

====
